---- MODULE Spec2Model ----
(***************************************************************************)
(* State-machine model of the gold deal finder's spot price cache          *)
(* (src/price_calculator.py, class GoldPriceCalculator) and of the pricing *)
(* call that reads it.                                                     *)
(*                                                                         *)
(* Units.  Time is in whole seconds.  Money is in paise (1/100 rupee), so  *)
(* Python's round(x, 2) is a rounding to an integer.  Weights are in       *)
(* thousandths of a gram, purity factors in 1/10000.  Arithmetic is exact; *)
(* the binary floating point error of the source is not modelled.          *)
(***************************************************************************)
EXTENDS Integers, Sequences, FiniteSets, TLC

----------------------------------------------------------------------------
(* Bounds of the model *)

\* number of threads sharing the calculator
NumThreads == 2
\* total number of public operations invoked in one behaviour
MaxCalls == 2
\* total number of clock advances in one behaviour
MaxTicks == 2
\* the wall clock (time.time()) when the behaviour starts
StartTime == 1000
\* number of write() chunks json.dump needs for one snapshot
NumChunks == 2

Threads == 1 .. NumThreads

\* the clock advances by one of these amounts (seconds)
TickSteps == {2, 298}

\* local time minus UTC of the host, in seconds (UTC-5, UTC, UTC+5:30)
TzOffsets == {-18000, 0, 19800}

\* how old (seconds) a cache file left by an earlier run of the program is
\* when the behaviour starts
LeftoverAges == {298}

\* what the first source may answer: rupee prices for 10 g, in paise
\* (goldProducts.retail999, goldProducts.withGst999 and the goldByKarat
\* table, with 0 for a key the table does not have)
MybResponses ==
    { [retail999 |-> 7500000, withGst999 |-> 7800000,
       k24 |-> 7700000, k22 |-> 7200000, k18 |-> 5900000, k14 |-> 4600000],
      [retail999 |-> 7600000, withGst999 |-> 7900000,
       k24 |-> 0, k22 |-> 7300000, k18 |-> 0, k14 |-> 0] }

\* what the second source may answer: items[0].xauPrice, rupees per troy
\* ounce, in paise
GoldpriceResponses == { [xauPrice |-> 22000000] }

\* calls of the deal filters
MaxCycles == 2
\* requests the API handles
MaxRequests == 4
\* advances of the API host's clock
MaxClockTicks == 4
\* the clock of the API host at startup
ApiStart == 100
\* by how much the clock advances at once: a second, the rest of the
\* cache's minute, the rest of the cooldown
ClockSteps == {1, 59, 1740}

----------------------------------------------------------------------------
(* Program constants *)

CACHE_TTL == 300
MIN_API_INTERVAL == 2
GST_RATE == 3
\* gold_per_gram = 7010.4176 of the hardcoded fallback, in 1/10000 rupee
HARDCODED_GOLD_PER_GRAM == 70104176
\* LANDED_MULTIPLIER = 1.11, in 1/100
LANDED_MULTIPLIER == 111
\* OZ_TO_GRAM = 31.1035 = 62207 / 2000
OZ_TO_GRAM_NUM == 62207
OZ_TO_GRAM_DEN == 2000

\* the upstream sources, in the order of API_ENDPOINTS
API_ENDPOINTS == << "myb-be", "goldprice.org" >>

\* Python's None
Nil == [nil |-> TRUE]

\* an exception leaving a call
Raised == [raised |-> TRUE]

\* 0.001 and 1000 grams, in thousandths
MIN_WEIGHT == 1
MAX_WEIGHT == 1000000
\* abs(outside_weight - inside_sum) < 0.01, in thousandths
SUM_TOLERANCE == 10
\* a weight of None
NoWeight == -1
\* weight < 0.3 is skipped, in thousandths
MIN_LISTING_WEIGHT == 300
\* selling_price < 1000 is skipped, in paise
MIN_SELLING_PRICE == 100000
\* max(discount, -100), in 1/100 percent
DISCOUNT_FLOOR == -10000
\* JEWELLERY_PREMIUM_22K = 1200 rupees for 10 g, in paise
JEWELLERY_PREMIUM_22K == 120000

\* config.MIN_DISCOUNT_PERCENTAGE = -1, in 1/100 percent
MIN_DISCOUNT_PERCENTAGE == -100
\* config.MIN_WEIGHT = 0.5, the alert threshold, in thousandths
ALERT_MIN_WEIGHT == 500
\* selling_price > 1000, in paise
ALERT_PRICE_FLOOR == 100000
\* [:4]
MAX_DEALS == 4
\* len(self.deals_history) > 100
HISTORY_LIMIT == 100
\* title[:50]
TITLE_KEY_LENGTH == 50
\* api.CACHE_TTL = 60 seconds
RESPONSE_CACHE_TTL == 60
\* SCAN_COOLDOWN = timedelta(minutes=30), in seconds
SCAN_COOLDOWN == 1800
\* last_scan_time is None
NoTime == -1

----------------------------------------------------------------------------
(* Arithmetic helpers *)

\* round(n / d) to the nearest integer, ties to even, for n >= 0 and d > 0
RoundHalfEven(n, d) ==
    LET q == n \div d
        r == n % d
    IN  IF 2 * r < d THEN q
        ELSE IF 2 * r > d THEN q + 1
        ELSE IF q % 2 = 0 THEN q ELSE q + 1

\* r * b = q * c + r' with 0 <= r' < c, for 0 <= r < c and b >= 0, computed
\* by doubling without leaving 32 bits
RECURSIVE MulQR(_, _, _)
MulQR(r, b, c) ==
    IF b = 0 THEN [q |-> 0, r |-> 0]
    ELSE LET h == MulQR(r, b \div 2, c)
             d == IF h.r >= c - h.r
                  THEN [q |-> 2 * h.q + 1, r |-> h.r - (c - h.r)]
                  ELSE [q |-> 2 * h.q, r |-> 2 * h.r]
         IN  IF b % 2 = 0 THEN d
             ELSE IF d.r >= c - r
             THEN [q |-> d.q + 1, r |-> d.r - (c - r)]
             ELSE [q |-> d.q, r |-> d.r + r]

\* a * num / den rounded to the nearest integer, ties to even, for a >= 0,
\* num >= 0 and den > 0, computed without leaving 32 bits:
\* a = A * den + r gives a * num / den = A * num + r * num / den
ScaleBy(a, num, den) ==
    LET m == MulQR(a % den, num, den)
        q == (a \div den) * num + m.q
    IN  IF m.r < den - m.r THEN q
        ELSE IF m.r > den - m.r THEN q + 1
        ELSE IF q % 2 = 0 THEN q ELSE q + 1

----------------------------------------------------------------------------
(* Snapshots.  A snapshot keeps the fields the cache and the pricing read: *)
(* timestamp (seconds, the naive UTC clock), source, spot_price_per_gram   *)
(* (1/10000 rupee), gold.per_gram.999_landed (paise), and of               *)
(* raw_api_response its goldByKarat entries (paise for 10 g, 0 for a       *)
(* missing key; hasRaw is FALSE when the snapshot carries no               *)
(* raw_api_response).                                                      *)

ParseMybResponse(resp, utcnow) ==
    [ timestamp |-> utcnow,
      source    |-> "live_api",
      spot      |-> 100 * RoundHalfEven(resp.retail999, 10),
      landed    |-> RoundHalfEven(resp.withGst999, 10),
      hasRaw    |-> TRUE,
      k24       |-> resp.k24,
      k22       |-> resp.k22,
      k18       |-> resp.k18,
      k14       |-> resp.k14 ]

ParseGoldpriceResponse(resp, utcnow) ==
    [ timestamp |-> utcnow,
      source    |-> "live_api",
      spot      |-> 100 * ScaleBy(resp.xauPrice, OZ_TO_GRAM_DEN, OZ_TO_GRAM_NUM),
      landed    |-> ScaleBy(resp.xauPrice,
                            (OZ_TO_GRAM_DEN * LANDED_MULTIPLIER) \div 100,
                            OZ_TO_GRAM_NUM),
      hasRaw    |-> FALSE,
      k24       |-> 0,
      k22       |-> 0,
      k18       |-> 0,
      k14       |-> 0 ]

\* the literal of _calculate_fallback_prices
HardcodedSnapshot(utcnow) ==
    [ timestamp |-> utcnow,
      source    |-> "hardcoded_fallback",
      spot      |-> HARDCODED_GOLD_PER_GRAM,
      landed    |-> ScaleBy(HARDCODED_GOLD_PER_GRAM, LANDED_MULTIPLIER, 10000),
      hasRaw    |-> FALSE,
      k24       |-> 0,
      k22       |-> 0,
      k18       |-> 0,
      k14       |-> 0 ]

\* a fallback that re-tags the cached snapshot without testing for None
CalculateFallbackPricesUnchecked(cached_data, utcnow) ==
    IF cached_data # Nil
    THEN [cached_data EXCEPT !.source = "cached_fallback", !.timestamp = utcnow]
    ELSE Raised

\* a fallback that never looks at the cache file
CalculateFallbackPricesNoCache(cached_data, utcnow) ==
    HardcodedSnapshot(utcnow)

\* _calculate_fallback_prices, given what its _read_cache_safe() returned
CalculateFallbackPrices(cached_data, utcnow) ==
    IF cached_data # Nil
    THEN [cached_data EXCEPT !.source = "cached_fallback", !.timestamp = utcnow]
    ELSE HardcodedSnapshot(utcnow)

----------------------------------------------------------------------------
(* The cache file.  A file is Nil (no such path) or a record: the snapshot *)
(* being dumped into it and the number of chunks written so far.           *)

\* a dump that leaves out raw_api_response
NewFileWithoutRaw(snap) ==
    [snap |-> [snap EXCEPT !.hasRaw = FALSE], written |-> 0]

\* a dump of the snapshot re-tagged as a fallback result
NewFileRetagged(snap) ==
    [snap |-> [snap EXCEPT !.source = "cached_fallback"], written |-> 0]

\* open(path, 'w') followed by json.dump(data, f): the file is created
\* empty and will hold data
NewFile(snap) == [snap |-> snap, written |-> 0]

IsComplete(file) == file # Nil /\ file.written = NumChunks

\* _read_cache_safe: None when the path does not exist, None on a
\* JSONDecodeError (a truncated file), else the parsed snapshot
ReadCacheSafe(file) ==
    IF file = Nil THEN Nil
    ELSE IF file.written < NumChunks THEN Nil
    ELSE file.snap

\* _is_cache_valid: datetime.now() is the local clock, the snapshot's
\* timestamp was taken from datetime.utcnow()
IsCacheValid(cached_data, utc, offset) ==
    (utc + offset) - cached_data.timestamp < CACHE_TTL

----------------------------------------------------------------------------
(* Upstream fetch *)

FetchOutcomes ==
    {"ok", "bad_status", "invalid_json", "parse_error", "network_error", "timeout"}

Responses(name) ==
    IF name = "myb-be" THEN MybResponses ELSE GoldpriceResponses

\* _fetch_from_api: the parsed snapshot, or None on every failure
FetchFromApi(name, outcome, resp, utcnow) ==
    IF outcome = "ok"
    THEN IF name = "myb-be" THEN ParseMybResponse(resp, utcnow)
                            ELSE ParseGoldpriceResponse(resp, utcnow)
    ELSE Nil

----------------------------------------------------------------------------
(* Expected price model.  Weights are in thousandths of a gram, per-gram   *)
(* prices in 1/10000 rupee, amounts in paise; each product is rounded to   *)
(* its unit (the source rounds each to a double).                          *)

\* PURITY_MAPPING.get(purity, 0.9167), in 1/10000
PurityFactor(purity) ==
    CASE purity = "24K" -> 9990
      [] purity = "22K" -> 9167
      [] purity = "18K" -> 7500
      [] purity = "14K" -> 5850
      [] OTHER -> 9167

\* raw_api_response['goldByKarat'].get(purity, 0)
KaratPrice10g(gold_data, purity) ==
    CASE purity = "24K" -> gold_data.k24
      [] purity = "22K" -> gold_data.k22
      [] purity = "18K" -> gold_data.k18
      [] purity = "14K" -> gold_data.k14
      [] OTHER -> 0

BasePricePerGram(gold_data, purity) ==
    IF purity = "24K" THEN gold_data.landed * 100
    ELSE IF gold_data.hasRaw /\ KaratPrice10g(gold_data, purity) > 0
         THEN KaratPrice10g(gold_data, purity) * 10
         ELSE ScaleBy(gold_data.landed * 100, PurityFactor(purity), 10000)

\* MAKING_CHARGES.get(charges_key, 0.12 if jewellery else 0.04), in percent
MakingChargesPercent(product_type, purity) ==
    IF product_type = "coin"
    THEN IF purity \in {"24K", "22K"} THEN 0 ELSE 4
    ELSE IF purity \in {"24K", "22K", "18K", "14K"} THEN 0
         ELSE IF product_type = "jewellery" THEN 12 ELSE 4

\* calculate_expected_price, given the snapshot get_live_gold_price returned
CalculateExpectedPrice(gold_data, weight, purity, product_type) ==
    LET base   == BasePricePerGram(gold_data, purity)
        gold   == ScaleBy(base, weight, 100000)
        making == ScaleBy(gold, MakingChargesPercent(product_type, purity), 100)
        gst    == ScaleBy(gold + making, GST_RATE, 100)
        total  == gold + making + gst
    IN  [ source         |-> gold_data.source,
          timestamp      |-> gold_data.timestamp,
          landed_price_per_gram |-> base,
          gold_value     |-> gold,
          making_charges |-> making,
          making_charges_percent |-> MakingChargesPercent(product_type, purity),
          gst            |-> gst,
          total_expected |-> total,
          price_per_gram |-> IF weight > 0 THEN ScaleBy(total, 1000, weight) ELSE 0 ]

\* the (weight, purity, product_type) arguments the pricing calls draw from
PricingArgs ==
    { [weight |-> 10000, purity |-> "22K", product_type |-> "coin"],
      [weight |-> 500, purity |-> "18K", product_type |-> "jewellery"] }

----------------------------------------------------------------------------
(* Text.  A title is a sequence of one-character strings.  The regular     *)
(* expressions of extract_purity_and_weight are matched as re.search and   *)
(* re.findall match them: leftmost start, greedy repetition.  A number is  *)
(* valued in thousandths of a gram (float() of at most three decimals).    *)

DigitValue ==
    "0" :> 0 @@ "1" :> 1 @@ "2" :> 2 @@ "3" :> 3 @@ "4" :> 4 @@
    "5" :> 5 @@ "6" :> 6 @@ "7" :> 7 @@ "8" :> 8 @@ "9" :> 9

UpperToLower ==
    "A" :> "a" @@ "C" :> "c" @@ "D" :> "d" @@ "G" :> "g" @@ "K" :> "k" @@
    "L" :> "l" @@ "M" :> "m" @@ "O" :> "o" @@ "R" :> "r" @@ "S" :> "s" @@
    "T" :> "t"

\* str.lower()
Lower(s) ==
    [i \in 1 .. Len(s) |->
        IF s[i] \in DOMAIN UpperToLower THEN UpperToLower[s[i]] ELSE s[i]]

IsDigit(c) == c \in DOMAIN DigitValue

\* \s
IsSpace(c) == c = " "

\* \w
IsWordChar(c) == c \notin {" ", "(", ")", "+", "-", ".", ","}

\* the first index from i on whose character is not a digit
RECURSIVE SkipDigits(_, _)
SkipDigits(s, i) ==
    IF i <= Len(s) /\ IsDigit(s[i]) THEN SkipDigits(s, i + 1) ELSE i

\* \s* from index i: the first index from i on whose character is not a space
RECURSIVE SkipSpaces(_, _)
SkipSpaces(s, i) ==
    IF i <= Len(s) /\ IsSpace(s[i]) THEN SkipSpaces(s, i + 1) ELSE i

\* the literal lit stands at index i of s
LiteralAt(s, i, lit) ==
    /\ i + Len(lit) - 1 <= Len(s)
    /\ \A k \in 1 .. Len(lit) : s[i + k - 1] = lit[k]

\* lit in s
Contains(s, lit) == \E i \in 1 .. Len(s) : LiteralAt(s, i, lit)

\* int() of a run of digits
RECURSIVE DigitsValue(_)
DigitsValue(ds) ==
    IF ds = << >> THEN 0
    ELSE 10 * DigitsValue(SubSeq(ds, 1, Len(ds) - 1)) + DigitValue[ds[Len(ds)]]

\* the k-th digit after the point, 0 when there is none
DigitAt(ds, k) == IF k <= Len(ds) THEN DigitValue[ds[k]] ELSE 0

\* the digits after the point, as thousandths
FractionValue(ds) == 100 * DigitAt(ds, 1) + 10 * DigitAt(ds, 2) + DigitAt(ds, 3)

NoMatch == [ok |-> FALSE, value |-> 0, end |-> 0]

\* \.? at index j: the index after the point when one stands there
AfterPoint(s, j) == IF j <= Len(s) /\ s[j] = "." THEN j + 1 ELSE j

\* the number whose integer digits are s[i .. j - 1] and whose fraction
\* starts at k
NumberParts(s, i, j, k) ==
    [ ok    |-> TRUE,
      value |-> 1000 * DigitsValue(SubSeq(s, i, j - 1))
                + FractionValue(SubSeq(s, k, SkipDigits(s, k) - 1)),
      end   |-> SkipDigits(s, k) ]

\* the number whose integer digits are s[i .. j - 1]
NumberUpTo(s, i, j) == NumberParts(s, i, j, AfterPoint(s, j))

\* (\d+\.?\d*) matched at index i: its float() and the index after it
NumberAt(s, i) ==
    IF i <= Len(s) /\ IsDigit(s[i]) THEN NumberUpTo(s, i, SkipDigits(s, i))
    ELSE NoMatch

\* gm? at index p, after the number n
LooseUnitAt(s, n, p) ==
    IF LiteralAt(s, p, << "g" >>)
    THEN [ ok |-> TRUE, value |-> n.value,
           end |-> IF LiteralAt(s, p + 1, << "m" >>) THEN p + 2 ELSE p + 1 ]
    ELSE NoMatch

\* \s*gm? after the number n
LooseUnitAfter(s, n) ==
    IF n.ok THEN LooseUnitAt(s, n, SkipSpaces(s, n.end)) ELSE NoMatch

\* (\d+\.?\d*)\s*gm? matched at index i
LooseWeightAt(s, i) == LooseUnitAfter(s, NumberAt(s, i))

\* unit\b at index p, after the number n
UnitAt(s, n, p, unit) ==
    IF /\ LiteralAt(s, p, unit)
       /\ (p + Len(unit) > Len(s) \/ ~IsWordChar(s[p + Len(unit)]))
    THEN [ok |-> TRUE, value |-> n.value, end |-> p + Len(unit)]
    ELSE NoMatch

\* \s*unit\b after the number n
UnitAfter(s, n, unit) ==
    IF n.ok THEN UnitAt(s, n, SkipSpaces(s, n.end), unit) ELSE NoMatch

\* (\d+\.?\d*)\s*unit\b matched at index i
UnitWeightAt(s, i, unit) == UnitAfter(s, NumberAt(s, i), unit)

\* re.search(r'(\d+\.?\d*)\s*gm?', s) from index i; m is the match at i
RECURSIVE SearchLooseWeight(_, _)
LooseOrNext(s, i, m) == IF m.ok THEN m ELSE SearchLooseWeight(s, i + 1)

SearchLooseWeight(s, i) ==
    IF i > Len(s) THEN NoMatch ELSE LooseOrNext(s, i, LooseWeightAt(s, i))

\* re.findall(r'(\d+\.?\d*)\s*gm?', s) from index i; m is the first match
RECURSIVE FindAllLooseWeights(_, _)
LooseWeightsFrom(s, m) ==
    IF m.ok THEN << m.value >> \o FindAllLooseWeights(s, m.end) ELSE << >>

FindAllLooseWeights(s, i) == LooseWeightsFrom(s, SearchLooseWeight(s, i))

\* re.finditer(r'(\d+\.?\d*)\s*unit\b', s) from index i; m is the match at i
RECURSIVE FindAllUnitWeights(_, _, _)
UnitWeightsFrom(s, i, unit, m) ==
    IF m.ok THEN << m.value >> \o FindAllUnitWeights(s, m.end, unit)
    ELSE FindAllUnitWeights(s, i + 1, unit)

FindAllUnitWeights(s, i, unit) ==
    IF i > Len(s) THEN << >>
    ELSE UnitWeightsFrom(s, i, unit, UnitWeightAt(s, i, unit))

\* sum(ws)
RECURSIVE SumSeq(_)
SumSeq(ws) == IF ws = << >> THEN 0 ELSE Head(ws) + SumSeq(Tail(ws))

\* the index of the first character c of s from index i on
FirstAt(s, i, c) ==
    CHOOSE k \in i .. Len(s) : s[k] = c /\ \A h \in i .. k - 1 : s[h] # c

\* re.split(r'\s*\+\s*', s): the parts between the plus signs (the spaces
\* the pattern strips are left on the parts, where no pattern reads them)
RECURSIVE SplitPlus(_)
SplitPlus(s) ==
    IF \E i \in 1 .. Len(s) : s[i] = "+"
    THEN << SubSeq(s, 1, FirstAt(s, 1, "+") - 1) >>
         \o SplitPlus(SubSeq(s, FirstAt(s, 1, "+") + 1, Len(s)))
    ELSE << s >>

\* one entry of purity_patterns: NN\s*kt | NN\s*karat | FFF | NNk
PurityPatternMatches(s, karat, fineness) ==
    \E i \in 1 .. Len(s) :
        \/ /\ LiteralAt(s, i, karat)
           /\ \/ LiteralAt(s, SkipSpaces(s, i + Len(karat)), << "k", "t" >>)
              \/ LiteralAt(s, SkipSpaces(s, i + Len(karat)),
                           << "k", "a", "r", "a", "t" >>)
        \/ LiteralAt(s, i, fineness)
        \/ LiteralAt(s, i, karat \o << "k" >>)

\* the loop over purity_patterns: the first pattern found anywhere in the
\* title decides
ExtractPurity(s) ==
    IF PurityPatternMatches(s, << "2", "4" >>, << "9", "9", "9" >>) THEN "24K"
    ELSE IF PurityPatternMatches(s, << "2", "2" >>, << "9", "1", "6" >>) THEN "22K"
    ELSE IF PurityPatternMatches(s, << "1", "8" >>, << "7", "5", "0" >>) THEN "18K"
    ELSE IF PurityPatternMatches(s, << "1", "4" >>, << "5", "8", "5" >>) THEN "14K"
    ELSE "None"

NoParentheses == [ok |-> FALSE, outside |-> 0, inside |-> << >>]

\* \(([^)]+)\) at index p, after the weight w
ParenthesesFrom(s, w, p) ==
    IF /\ LiteralAt(s, p, << "(" >>)
       /\ \E q \in p + 2 .. Len(s) : s[q] = ")"
       /\ ~LiteralAt(s, p + 1, << ")" >>)
    THEN [ ok |-> TRUE, outside |-> w.value,
           inside |-> SubSeq(s, p + 1, FirstAt(s, p + 2, ")") - 1) ]
    ELSE NoParentheses

\* \s*\(([^)]+)\) after the weight w
ParenthesesAfter(s, w) ==
    IF w.ok THEN ParenthesesFrom(s, w, SkipSpaces(s, w.end)) ELSE NoParentheses

\* (\d+\.?\d*)\s*gm?\s*\(([^)]+)\) matched at index i
ParenthesesAt(s, i) == ParenthesesAfter(s, LooseWeightAt(s, i))

\* re.search(parentheses_pattern, title_lower) from index i; m is the match
\* at i
RECURSIVE SearchParentheses(_, _)
ParenthesesOrNext(s, i, m) == IF m.ok THEN m ELSE SearchParentheses(s, i + 1)

SearchParentheses(s, i) ==
    IF i > Len(s) THEN NoParentheses
    ELSE ParenthesesOrNext(s, i, ParenthesesAt(s, i))

\* 0.001 <= weight <= 1000
InWeightRange(w) == MIN_WEIGHT <= w /\ w <= MAX_WEIGHT

\* the first weight of a plus-joined part, kept when it is in range
PlusWeight(weight_match) ==
    IF weight_match.ok /\ InWeightRange(weight_match.value)
    THEN << weight_match.value >> ELSE << >>

\* the loop over the plus-joined parts
RECURSIVE PlusWeights(_)
PlusWeights(parts) ==
    IF parts = << >> THEN << >>
    ELSE PlusWeight(SearchLooseWeight(Head(parts), 1)) \o PlusWeights(Tail(parts))

\* re.search(r'-\s*(\d+\.?\d*)\s*gm?', title_lower) from index i
RECURSIVE SearchHyphen(_, _)
HyphenOrNext(s, i, m) ==
    IF s[i] = "-" /\ m.ok THEN m ELSE SearchHyphen(s, i + 1)

SearchHyphen(s, i) ==
    IF i > Len(s) THEN NoMatch
    ELSE HyphenOrNext(s, i, LooseWeightAt(s, SkipSpaces(s, i + 1)))

\* the unit words of weight_patterns, in their order
WeightUnits ==
    << << "g", "m" >>, << "g", "r", "a", "m" >>, << "g" >>,
       << "g", "r", "a", "m", "s" >>, << "g", "r" >> >>

\* the numbers the general scan takes for purity codes, in thousandths
PurityNumbers ==
    {24000, 22000, 18000, 14000, 999000, 916000, 750000, 585000}

\* the general scan: every match of every pattern that is not a purity
\* number and is in range
RECURSIVE AllWeights(_, _)
AllWeights(s, u) ==
    IF u > Len(WeightUnits) THEN << >>
    ELSE SelectSeq(FindAllUnitWeights(s, 1, WeightUnits[u]),
                   LAMBDA w : w \notin PurityNumbers /\ InWeightRange(w))
         \o AllWeights(s, u + 1)

Abs(x) == IF x < 0 THEN -x ELSE x

\* the scanned weights summed whether or not they are identical
SumWeights(all_weights) == SumSeq(all_weights)

\* the general scan's result: the common value of identical weights, else
\* their sum
ResolveWeights(all_weights) ==
    IF \A k \in 1 .. Len(all_weights) : all_weights[k] = all_weights[1]
    THEN all_weights[1]
    ELSE SumSeq(all_weights)

\* inside_weights is not empty and abs(outside_weight - inside_sum) < 0.01
ParenthesesAgree(outside_weight, inside_weights) ==
    /\ inside_weights # << >>
    /\ Abs(outside_weight - SumSeq(inside_weights)) < SUM_TOLERANCE

\* the return statements of extract_purity_and_weight in their order, given
\* what each rule found
ApplyRules(title_lower, purity, parentheses_match, plus_weights, hyphen_match, all_weights) ==
    IF /\ parentheses_match.ok
       /\ ParenthesesAgree(parentheses_match.outside,
                           FindAllLooseWeights(parentheses_match.inside, 1))
    THEN [purity |-> purity, weight |-> parentheses_match.outside,
          rule |-> "parentheses"]
    ELSE IF Contains(title_lower, << "+" >>) /\ plus_weights # << >>
    THEN [purity |-> purity, weight |-> SumSeq(plus_weights), rule |-> "plus"]
    ELSE IF hyphen_match.ok
    THEN [purity |-> purity, weight |-> hyphen_match.value, rule |-> "hyphen"]
    ELSE IF all_weights # << >>
    THEN [purity |-> purity, weight |-> ResolveWeights(all_weights),
          rule |-> "scan"]
    ELSE [purity |-> purity, weight |-> NoWeight, rule |-> "none"]

\* extract_purity_and_weight from title_lower on
ExtractFromLower(title_lower) ==
    ApplyRules(title_lower,
               ExtractPurity(title_lower),
               SearchParentheses(title_lower, 1),
               PlusWeights(SplitPlus(title_lower)),
               SearchHyphen(title_lower, 1),
               AllWeights(title_lower, 1))

\* extract_purity_and_weight: (purity, weight) with "None" and NoWeight
\* for None, and the return statement taken
ExtractPurityAndWeight(title) == ExtractFromLower(Lower(title))

----------------------------------------------------------------------------
(* The scraper's handling of one raw listing (src/gold_scraper.py).        *)
(* Selling prices are in paise, discounts in 1/100 percent.                *)

coin_keywords ==
    { << "c", "o", "i", "n" >>,
      << "s", "o", "v", "e", "r", "e", "i", "g", "n" >>,
      << "b", "a", "r" >>,
      << "b", "i", "s", "c", "u", "i", "t" >>,
      << "i", "n", "g", "o", "t" >>,
      << "b", "u", "l", "l", "i", "o", "n" >>,
      << "i", "n", "v", "e", "s", "t", "m", "e", "n", "t" >> }

jewellery_keywords ==
    { << "c", "h", "a", "i", "n" >>,
      << "p", "e", "n", "d", "a", "n", "t" >>,
      << "r", "i", "n", "g" >>,
      << "b", "a", "n", "g", "l", "e" >>,
      << "b", "r", "a", "c", "e", "l", "e", "t" >>,
      << "e", "a", "r", "r", "i", "n", "g" >>,
      << "n", "e", "c", "k", "l", "a", "c", "e" >>,
      << "m", "a", "n", "g", "a", "l", "s", "u", "t", "r", "a" >>,
      << "j", "e", "w", "e", "l", "l", "e", "r", "y" >>,
      << "j", "e", "w", "e", "l", "r", "y" >>,
      << "o", "r", "n", "a", "m", "e", "n", "t" >> }

\* determine_product_type
DetermineProductType(title, description) ==
    LET text            == Lower(title \o << " " >> \o description)
        coin_count      == Cardinality({ k \in coin_keywords : Contains(text, k) })
        jewellery_count == Cardinality({ k \in jewellery_keywords : Contains(text, k) })
    IN  IF coin_count > jewellery_count THEN "coin" ELSE "jewellery"

\* the raw discount, with no floor
NoFloor(discount) == discount

\* max(discount, -100)
FloorAt(discount) ==
    IF discount < DISCOUNT_FLOOR THEN DISCOUNT_FLOOR ELSE discount

\* calculate_discount_percentage
CalculateDiscountPercentage(selling_price, expected_price) ==
    IF expected_price <= 0 THEN 0
    ELSE FloorAt(IF expected_price >= selling_price
                 THEN ScaleBy(expected_price - selling_price, 10000, expected_price)
                 ELSE -ScaleBy(selling_price - expected_price, 10000, expected_price))

\* a listing taken for evaluable as soon as it has a weight
EvaluableByWeight(purity, weight) ==
    weight # NoWeight /\ weight # 0

\* the negation of "not purity or not weight": a purity was found and the
\* weight is neither None nor 0
Evaluable(purity, weight) ==
    purity # "None" /\ weight # NoWeight /\ weight # 0

\* str(is_jewellery): the Python bool the scraper hands to
\* calculate_expected_price as product_type, which equals neither 'coin'
\* nor 'jewellery'
BoolAsProductType(is_jewellery) == IF is_jewellery THEN "True" ELSE "False"

\* the product record of a listing that was priced
ProductRecord(raw, purity, weight, product_type, expected_price_info) ==
    [ weight_grams     |-> weight,
      purity           |-> purity,
      product_type     |-> product_type,
      is_jewellery     |-> product_type = "jewellery",
      selling_price    |-> raw.selling_price,
      expected_price   |-> expected_price_info.total_expected,
      discount_percent |->
          CalculateDiscountPercentage(raw.selling_price,
                                      expected_price_info.total_expected),
      price_per_gram   |-> ScaleBy(raw.selling_price, 1000, weight),
      making_charges_percent |-> expected_price_info.making_charges_percent ]

\* the listing priced from the snapshot that get_live_gold_price returned
PricedProduct(raw, purity, weight, product_type, gold_data) ==
    ProductRecord(raw, purity, weight, product_type,
                  CalculateExpectedPrice(gold_data, weight, purity,
                                         BoolAsProductType(product_type = "jewellery")))

\* _parse_ajio_product and _parse_myntra_product from the parsed title on:
\* None, or the product record
ParseProduct(raw, purity_weight, gold_data) ==
    IF ~Evaluable(purity_weight.purity, purity_weight.weight) THEN Nil
    ELSE IF purity_weight.weight < MIN_LISTING_WEIGHT THEN Nil
    ELSE IF raw.selling_price < MIN_SELLING_PRICE THEN Nil
    ELSE PricedProduct(raw, purity_weight.purity, purity_weight.weight,
                       DetermineProductType(raw.title, raw.description),
                       gold_data)

----------------------------------------------------------------------------
(* Listings.  A title is put together from a prefix, weight tokens (a      *)
(* number, a space, a spelling of the gram unit) in one of the forms the   *)
(* titles of the shops take, and a suffix; the listing keeps the form and  *)
(* the weights of its tokens, in thousandths of a gram, next to the title. *)

Number(text, grams) == [text |-> text, grams |-> grams]

Half        == Number(<< "0", ".", "5" >>, 500)
Two         == Number(<< "2" >>, 2000)
FourAndHalf == Number(<< "4", ".", "5" >>, 4500)
SixHundred  == Number(<< "6", "0", "0" >>, 600000)
TwelveHundred == Number(<< "1", "2", "0", "0" >>, 1200000)

Numbers == { Half, Two, FourAndHalf, SixHundred, TwelveHundred }

\* g, Gm, grams
UnitSpellings ==
    { << "g" >>,
      << "G", "m" >>,
      << "g", "r", "a", "m", "s" >> }

\* "", "18K Gold Coin ", "22kt Gold Coin ", "916 Gold Ring ", "Gold "; the
\* first and the last carry no karat token
Prefixes ==
    { << >>,
      << "1", "8", "K", " ", "G", "o", "l", "d", " ", "C", "o", "i", "n", " " >>,
      << "2", "2", "k", "t", " ", "G", "o", "l", "d", " ", "C", "o", "i", "n", " " >>,
      << "9", "1", "6", " ", "G", "o", "l", "d", " ", "R", "i", "n", "g", " " >>,
      << "G", "o", "l", "d", " " >> }

\* "", " 24K"
Suffixes == { << >>, << " ", "2", "4", "K" >> }

\* 500 and 50000 rupees
SellingPrices == { 50000, 5000000 }

Token(n, unit) == n.text \o << " " >> \o unit

RECURSIVE JoinPlus(_, _)
JoinPlus(ns, unit) ==
    IF Len(ns) = 1 THEN Token(Head(ns), unit)
    ELSE Token(Head(ns), unit) \o << " ", "+", " " >> \o JoinPlus(Tail(ns), unit)

RECURSIVE Grams(_)
Grams(ns) == IF ns = << >> THEN << >> ELSE << Head(ns).grams >> \o Grams(Tail(ns))

\* the numbers of the tokens of each form, in the order of the title
Forms ==
    { [form |-> "none", numbers |-> << >>] }
    \cup { [form |-> "single", numbers |-> << n >>] : n \in Numbers }
    \cup { [form |-> "repeat", numbers |-> << n, n >>] : n \in Numbers }
    \cup { [form |-> "pair", numbers |-> ns] :
               ns \in { << Half, Two >>, << Two, FourAndHalf >> } }
    \cup { [form |-> "plus", numbers |-> ns] :
               ns \in { << Half, Two >>, << Two, Two >>,
                        << SixHundred, SixHundred >> } }
    \cup { [form |-> "parentheses", numbers |-> ns] :
               ns \in { << FourAndHalf, Half, Two, Two >>,
                        << TwelveHundred, SixHundred, SixHundred >>,
                        << Two, Half, Two >> } }
    \cup { [form |-> "hyphen", numbers |-> << n >>] : n \in Numbers }

Body(f, unit) ==
    LET ns == f.numbers
    IN  CASE f.form = "none"   -> << >>
          [] f.form = "single" -> Token(ns[1], unit)
          [] f.form = "repeat" ->
                 Token(ns[1], unit) \o << " ", "c", "o", "i", "n", " " >> \o Token(ns[2], unit)
          [] f.form = "pair"   -> Token(ns[1], unit) \o << " " >> \o Token(ns[2], unit)
          [] f.form = "plus"   -> JoinPlus(ns, unit)
          [] f.form = "parentheses" ->
                 Token(ns[1], unit) \o << " ", "(" >> \o JoinPlus(Tail(ns), unit)
                 \o << ")" >>
          [] f.form = "hyphen" -> << "-", " " >> \o Token(ns[1], unit)

\* the raw listings of a search result page: name, description and
\* offerPrice.value (AJIO), productName and price (Myntra)
Listings ==
    { [ title         |-> prefix \o Body(f, unit) \o suffix,
        description   |-> << >>,
        selling_price |-> price,
        form          |-> f.form,
        tokens        |-> Grams(f.numbers),
        has_karat     |-> (\E i \in 1 .. Len(prefix) : IsDigit(prefix[i]))
                          \/ suffix # << >> ] :
      prefix \in Prefixes, f \in Forms, unit \in UnitSpellings,
      suffix \in Suffixes, price \in SellingPrices }

\* the snapshots get_live_gold_price hands to a pricing call
Snapshots ==
    { ParseMybResponse(resp, StartTime) : resp \in MybResponses }
    \cup { ParseGoldpriceResponse(resp, StartTime) : resp \in GoldpriceResponses }
    \cup { HardcodedSnapshot(StartTime) }

\* 'gold' in title.lower() or in description.lower(), and no 'silver' in
\* title.lower()
IsGoldListing(raw) ==
    /\ \/ Contains(Lower(raw.title), << "g", "o", "l", "d" >>)
       \/ Contains(Lower(raw.description), << "g", "o", "l", "d" >>)
    /\ ~Contains(Lower(raw.title), << "s", "i", "l", "v", "e", "r" >>)

----------------------------------------------------------------------------
(* The deal filter (src/main.py, src/scanner.py).  A product is the record *)
(* the scraper emits: source, title, weight_grams (thousandths of a gram), *)
(* purity, discount_percent (1/100 percent), price_per_gram and            *)
(* selling_price (paise).                                                  *)

\* MAX_PRICE_PER_GRAM, in paise
MAX_PRICE_PER_GRAM ==
    [ k \in {"24K", "22K", "18K", "14K", "default"} |->
        CASE k = "24K" -> 1800000
          [] k = "22K" -> 1700000
          [] k = "18K" -> 1600000
          [] k = "14K" -> 1500000
          [] k = "default" -> 1400000 ]

\* MAX_PRICE_PER_GRAM.get(purity, MAX_PRICE_PER_GRAM['default'])
MaxPriceFor(purity) ==
    IF purity \in DOMAIN MAX_PRICE_PER_GRAM THEN MAX_PRICE_PER_GRAM[purity]
    ELSE MAX_PRICE_PER_GRAM["default"]

\* title[:50]
TitlePrefix(title) ==
    SubSeq(title, 1, IF Len(title) < TITLE_KEY_LENGTH THEN Len(title)
                     ELSE TITLE_KEY_LENGTH)

\* f"{source}_{title[:50]}_{weight_grams}": the sources and the printed
\* weight hold no underscore, so the string determines the three parts
ProductKey(product) ==
    << product.source, TitlePrefix(product.title), product.weight_grams >>

\* the criteria without the cap on the price per gram
MeetsCriteriaWithoutCap(product) ==
    /\ product.discount_percent >= MIN_DISCOUNT_PERCENTAGE
    /\ product.weight_grams >= ALERT_MIN_WEIGHT
    /\ product.selling_price > ALERT_PRICE_FLOOR

\* meets_criteria of GoldDealFinder.filter_good_deals
MeetsCriteria(product) ==
    /\ product.discount_percent >= MIN_DISCOUNT_PERCENTAGE
    /\ product.weight_grams >= ALERT_MIN_WEIGHT
    /\ product.price_per_gram <= MaxPriceFor(product.purity)
    /\ product.selling_price > ALERT_PRICE_FLOOR

\* meets_criteria of GitHubActionsScanner.filter_good_deals
ScannerMeetsCriteria(product) ==
    /\ product.discount_percent >= MIN_DISCOUNT_PERCENTAGE
    /\ product.weight_grams >= ALERT_MIN_WEIGHT
    /\ product.selling_price > ALERT_PRICE_FLOOR

\* sorted(...) puts p behind the deals whose discount is not higher
RECURSIVE InsertByDiscount(_, _)
InsertByDiscount(p, deals) ==
    IF deals = << >> THEN << p >>
    ELSE IF p.discount_percent < Head(deals).discount_percent
    THEN << p >> \o deals
    ELSE << Head(deals) >> \o InsertByDiscount(p, Tail(deals))

\* sorted(good_deals, key=lambda p: p.get("discount_percent", inf)):
\* ascending and stable
RECURSIVE SortedByDiscount(_)
SortedByDiscount(deals) ==
    IF deals = << >> THEN << >>
    ELSE InsertByDiscount(deals[Len(deals)],
                          SortedByDiscount(SubSeq(deals, 1, Len(deals) - 1)))

\* the whole sorted list, with no cut
Untruncated(deals) == deals

\* [:4]
Truncated(deals) ==
    SubSeq(deals, 1, IF Len(deals) < MAX_DEALS THEN Len(deals) ELSE MAX_DEALS)

\* self.deals_history[-100:] when it is longer than 100
TrimHistory(history) ==
    IF Len(history) > HISTORY_LIMIT
    THEN SubSeq(history, Len(history) - HISTORY_LIMIT + 1, Len(history))
    ELSE history

\* no product counts as already alerted
NeverSent(product, alerts) == FALSE

\* product_key in self.sent_alerts
AlreadySent(product, alerts) == ProductKey(product) \in alerts

\* one pass of the loop of GoldDealFinder.filter_good_deals over a product
FilterStep(product, st) ==
    IF AlreadySent(product, st.sent_alerts) THEN st
    ELSE IF MeetsCriteria(product)
    THEN [ good_deals    |-> Append(st.good_deals, product),
           sent_alerts   |-> st.sent_alerts \cup { ProductKey(product) },
           deals_history |-> TrimHistory(Append(st.deals_history,
                                                [product |-> product])) ]
    ELSE st

\* the loop of GoldDealFinder.filter_good_deals
RECURSIVE FilterLoop(_, _)
FilterLoop(batch, st) ==
    IF batch = << >> THEN st
    ELSE FilterLoop(Tail(batch), FilterStep(Head(batch), st))

\* the loop of GitHubActionsScanner.filter_good_deals
ScannerLoop(batch) == SelectSeq(batch, ScannerMeetsCriteria)

\* titles: two short ones, and two that agree in their first 50 characters
CoinTitle == << "G", "o", "l", "d", " ", "C", "o", "i", "n" >>
BarTitle  == << "G", "o", "l", "d", " ", "B", "a", "r" >>
LongTitle(last) == [i \in 1 .. TITLE_KEY_LENGTH |-> "x"] \o << last >>

Product(source, title, weight, purity, discount, per_gram, price) ==
    [ source |-> source, title |-> title, weight_grams |-> weight,
      purity |-> purity, discount_percent |-> discount,
      price_per_gram |-> per_gram, selling_price |-> price ]

\* the products of the result pages, in the order of the pages
Feed ==
    << Product("AJIO",   CoinTitle,      1000, "24K",  -100,  700000,  700000),
       Product("Myntra", CoinTitle,      1000, "24K",  1200,  650000,  650000),
       Product("AJIO",   LongTitle("a"), 2000, "22K",  2500,  500000, 1000000),
       Product("AJIO",   LongTitle("b"), 2000, "22K",   300,  640000, 1280000),
       Product("AJIO",   BarTitle,       5000, "18K",   800,  520000, 2600000),
       Product("Myntra", BarTitle,        500, "14K",  1500,  400000,  200000),
       Product("Myntra", CoinTitle,      2000, "22K",  -500,  700000, 1400000),
       Product("AJIO",   CoinTitle,       400, "24K",  2000,  600000,  240000),
       Product("AJIO",   BarTitle,       1000, "24K",  -100, 2000000, 2000000),
       Product("Myntra", BarTitle,       1000, "20K",   100, 1450000, 1450000),
       Product("Myntra", CoinTitle,       500, "24K",  9000,  200000,  100000) >>

Reversed(s) == [i \in 1 .. Len(s) |-> s[Len(s) + 1 - i]]

\* the batches scrape_all hands to the filter: runs of the feed, in the
\* order of the pages or in the opposite order
Batches ==
    { SubSeq(Feed, i, j) : i \in 1 .. Len(Feed), j \in 1 .. Len(Feed) }
    \cup { Reversed(SubSeq(Feed, i, j)) : i \in 1 .. Len(Feed), j \in 1 .. Len(Feed) }

----------------------------------------------------------------------------
(* The HTTP API (src/api.py).  The handlers are coroutines of one event    *)
(* loop: a handler runs from one await to the next without another         *)
(* handler in between.  scan_products awaits only scan_lock, which is free *)
(* whenever a handler reaches it, since no handler awaits while holding    *)
(* it; scraper.scrape_all() is a plain call.  save_results runs as a       *)
(* background task, in a worker thread, after the response is sent.  A     *)
(* scan is named by the second it was accepted at; a response to           *)
(* /products/latest is the set of scans its products come from.            *)

\* the values of the query parameter limit
Limits == {10, 100}

\* what scraper.scrape_all() does
ScrapeOutcomes == {"found", "raised"}

\* the scan the startup handler writes into an empty data directory
SampleScan == 0

\* response_cache = {}
EmptyCache == [limit \in Limits |-> Nil]

\* the cooldown is taken for over one second early
CooldownOffByOne(last, t) == last # NoTime /\ t - last < SCAN_COOLDOWN - 1

\* last_scan_time and (now - last_scan_time) < SCAN_COOLDOWN
CooldownActive(last, t) == last # NoTime /\ t - last < SCAN_COOLDOWN

\* cache_key in response_cache and the entry is younger than CACHE_TTL
ValidEntry(entry, t) == entry # Nil /\ t - entry.timestamp < RESPONSE_CACHE_TTL

\* get_cached_response: the data of a valid entry, otherwise None; the
\* caller tests `if cached:', which None and [] both fail
CachedData(cache, limit, t) ==
    IF ValidEntry(cache[limit], t) THEN cache[limit].data ELSE {}

\* get_cached_response deletes the entry it finds expired
AfterLookup(cache, limit, t) ==
    IF cache[limit] # Nil /\ ~ ValidEntry(cache[limit], t)
    THEN [cache EXCEPT ![limit] = Nil]
    ELSE cache

\* get_all_scan_files()[0]: a file of the latest st_mtime
Newest(files) == { f \in files : \A g \in files : g.mtime <= f.mtime }

\* load_scan_file(...).get('products'): json.load fails on a file that
\* save_results has opened and not dumped, and the products are then []
ProductsOf(file) == IF file.written THEN { file.scan_id } ELSE {}

\* the scans whose file has been dumped
WrittenScans(files) == { f.scan_id : f \in { g \in files : g.written } }

\* open(filename, 'w') creates or empties the file
Opened(files, scan_id, t) ==
    { f \in files : f.scan_id # scan_id }
    \cup { [scan_id |-> scan_id, written |-> FALSE, mtime |-> t] }

\* json.dump writes it
Dumped(files, scan_id, t) ==
    { f \in files : f.scan_id # scan_id }
    \cup { [scan_id |-> scan_id, written |-> TRUE, mtime |-> t] }

----------------------------------------------------------------------------
(* State *)

VARIABLES
    now,            \* the UTC wall clock: time.time(), datetime.utcnow()
    tz,             \* datetime.now() - datetime.utcnow() of the host
    ticks,          \* clock advances so far
    nCalls,         \* operations invoked so far
    cacheFile,      \* the file at CACHE_FILE (bullion_cache.json)
    tmpFile,        \* the file at CACHE_FILE.with_suffix('.tmp')
    classLock,      \* the thread holding GoldPriceCalculator._lock, 0 when free
    instance,       \* GoldPriceCalculator._instance: an object id, 0 for None
    nInstances,     \* objects super().__new__ has created
    initialized,    \* the instance has the attribute _initialized
    cacheLock,      \* self._cache_lock: the id of a Lock object, 0 before it is set
    lockHolder,     \* per Lock object made by __init__: its holder, 0 when free
    nMarkerInits,   \* executions of self._last_api_call = 0
    self,           \* the object each thread's GoldPriceCalculator() returned
    lastApiCall,    \* _last_api_call, -1 before it is set
    pc,             \* where each thread is
    op,             \* the operation each thread runs
    force,          \* force_refresh of the call
    args,           \* (weight, purity, product_type) of a pricing call
    ep,             \* index into API_ENDPOINTS of the loop
    sleepFrom,      \* when time.sleep(_min_api_interval) was entered
    callAt,         \* when the call was made
    out,            \* output of get_live_gold_price
    ret,            \* what the call returned
    path,           \* the return statement the call left by
    tried,          \* the fetch attempts of the call: <<name, status>>
    obs,            \* what get_cache_age's read found in the file
    attempts,       \* fetch attempts per source made by the burst's calls
    burst,          \* the calls so far are one simultaneous burst on a cold cache
    lastRefreshAt,  \* when the last pass over API_ENDPOINTS started, -1 if none
    prevPricing,    \* the last calculate_expected_price call that returned:
                    \* its arguments, when it was made, the path its
                    \* get_live_gold_price left by, and its total_expected
    lastLive,       \* the timestamp of the last snapshot with source live_api
                    \* a call returned, -1 if none
    liveAtCall,     \* per thread: lastLive when its call was made
    listing,        \* the raw listing the scraper is handed, Nil if none
    parsed,         \* what extract_purity_and_weight returned for its title
    product,        \* what _parse_ajio_product / _parse_myntra_product returned
    invocation,     \* a direct call of a pure function: its name and arguments
    returned,       \* what the direct call returned
    sent_alerts,    \* GoldDealFinder.sent_alerts: product keys
    deals_history,  \* GoldDealFinder.deals_history
    good_deals,     \* the last call of GoldDealFinder.filter_good_deals: its
                    \* batch, the deals admitted, the list returned, and
                    \* sent_alerts as it was when the call was made
    earlier_keys,   \* the keys of the lists the calls before it returned
    top_deals,      \* the last call of GitHubActionsScanner.filter_good_deals
    cycles,         \* calls of the filters so far
    clock,          \* the clock of the API host, seconds
    clock_ticks,    \* advances of that clock so far
    last_scan_time, \* api.last_scan_time, NoTime for None
    response_cache, \* api.response_cache, per limit: Nil, or the data, the
                    \* timestamp, and the scans written when it was computed
    data_dir,       \* the scan files of data/: scan id, dumped or only
                    \* opened, st_mtime
    background_tasks, \* the save_results tasks added and not finished
    response,       \* the response to the last request, with the scans that
                    \* had succeeded and the scrapes made when it came in
    scrapes,        \* when each scraper.scrape_all() of scan_products started
    succeeded,      \* the scans scan_products answered with success
    requests        \* requests handled so far

\* the state of the deal filters
finder ==
    << sent_alerts, deals_history, good_deals, earlier_keys, top_deals, cycles >>

\* the state of the HTTP API
api ==
    << clock, clock_ticks, last_scan_time, response_cache, data_dir,
       background_tasks, response, scrapes, succeeded, requests >>

vars ==
    << now, tz, ticks, nCalls, cacheFile, tmpFile, classLock, instance,
       nInstances, initialized, cacheLock, lockHolder, nMarkerInits, self,
       lastApiCall, pc, op, force, args, ep, sleepFrom, callAt, out, ret, path,
       tried, obs, attempts, burst, lastRefreshAt, prevPricing, lastLive, liveAtCall,
       listing, parsed, product, invocation, returned, finder, api >>

\* what only the scraper's pass and the direct calls change
scraping ==
    << listing, parsed, product, invocation, returned >>

\* what the calculator leaves alone
downstream ==
    << scraping, finder, api >>

\* what only construction changes
construction ==
    << classLock, instance, nInstances, initialized, cacheLock, nMarkerInits,
       self >>

\* what construction leaves alone
calls ==
    << now, tz, ticks, nCalls, cacheFile, tmpFile, op, force, args, ep,
       sleepFrom, callAt, out, ret, path, tried, obs, attempts, burst,
       lastRefreshAt, prevPricing, lastLive, liveAtCall >>

\* what the scraper's pass and the direct calls leave alone
calculator ==
    << construction, calls, lockHolder, lastApiCall, pc >>

\* not computed yet
Pending == [pending |-> TRUE]

\* a new GoldDealFinder, and no filter has run
NoFiltering ==
    /\ sent_alerts = {}
    /\ deals_history = << >>
    /\ good_deals = Pending
    /\ earlier_keys = {}
    /\ top_deals = Pending
    /\ cycles = 0

\* the API after its startup handlers, with no request handled
ApiStarted ==
    /\ clock = ApiStart
    /\ clock_ticks = 0
    /\ last_scan_time = NoTime
    /\ response_cache = EmptyCache
    /\ data_dir = { [scan_id |-> SampleScan, written |-> TRUE, mtime |-> ApiStart] }
    /\ background_tasks = {}
    /\ response = Nil
    /\ scrapes = << >>
    /\ succeeded = {}
    /\ requests = 0

\* no listing is being scraped, no direct call is made, no deal is
\* filtered and no request is handled
NoScraping ==
    /\ listing = Nil
    /\ parsed = Pending
    /\ product = Pending
    /\ invocation = Nil
    /\ returned = Pending
    /\ NoFiltering
    /\ ApiStarted

\* the cache files a process may find when it starts: none, or the last
\* snapshot an earlier run fetched and persisted
LeftoverFiles ==
    {Nil} \cup
    { [ snap    |-> ParseMybResponse(resp, StartTime - age),
        written |-> NumChunks ] : resp \in MybResponses, age \in LeftoverAges }

\* the state after GoldPriceCalculator() has run once: __init__ sets
\* _last_api_call = 0 and a free _cache_lock
InitCalculator ==
    /\ now = StartTime
    /\ tz \in TzOffsets
    /\ ticks = 0
    /\ nCalls = 0
    /\ cacheFile \in LeftoverFiles
    /\ tmpFile = Nil
    /\ classLock = 0
    /\ instance = 1
    /\ nInstances = 1
    /\ initialized = TRUE
    /\ cacheLock = 1
    /\ lockHolder = << 0 >>
    /\ nMarkerInits = 1
    /\ self = [t \in Threads |-> 1]
    /\ lastApiCall = 0
    /\ pc = [t \in Threads |-> "idle"]
    /\ op = [t \in Threads |-> "none"]
    /\ force = [t \in Threads |-> FALSE]
    /\ args = [t \in Threads |-> Nil]
    /\ ep = [t \in Threads |-> 1]
    /\ sleepFrom = [t \in Threads |-> 0]
    /\ callAt = [t \in Threads |-> 0]
    /\ out = [t \in Threads |-> Nil]
    /\ ret = [t \in Threads |-> Nil]
    /\ path = [t \in Threads |-> "none"]
    /\ tried = [t \in Threads |-> << >>]
    /\ obs = [t \in Threads |-> "none"]
    /\ attempts = [n \in {"myb-be", "goldprice.org"} |-> 0]
    /\ burst = [ok |-> cacheFile = Nil, callers |-> {}]
    /\ lastRefreshAt = -1
    /\ prevPricing = Nil
    /\ lastLive = -1
    /\ liveAtCall = [t \in Threads |-> -1]

Init == InitCalculator /\ NoScraping

\* a thread that is not computing: between calls, asleep, waiting for a
\* response or for the lock
Waiting(t) ==
    \/ pc[t] \in {"idle", "sleep", "fetching", "tfetching"}
    \/ pc[t] \in {"lock", "clr_lock"} /\ lockHolder[cacheLock] # 0

\* time passes.  Computation steps take no time: the clock advances while
\* every thread waits
Tick ==
    /\ ticks < MaxTicks
    /\ \A t \in Threads : Waiting(t)
    /\ \E d \in TickSteps : now' = now + d
    /\ ticks' = ticks + 1
    /\ UNCHANGED << downstream, construction, tz, nCalls, cacheFile, tmpFile, lockHolder, lastApiCall,
                    pc, op, force, args, ep, sleepFrom, callAt, out, ret, path,
                    tried, obs, attempts, burst, lastRefreshAt,
                    prevPricing, lastLive, liveAtCall >>

\* where an operation starts
EntryPc(o) ==
    CASE o = "glp" -> "lock"
      [] o = "price" -> "lock"
      [] o = "test" -> "tfetch"
      [] o = "age" -> "age_exists"
      [] o = "clear" -> "clr_lock"

\* a thread invokes a public operation of the calculator.  Threads are
\* interchangeable: of the idle ones, the lowest makes the next call
Call(t, ops) ==
    /\ pc[t] = "idle"
    /\ \A u \in Threads : u < t => pc[u] # "idle"
    /\ nCalls < MaxCalls
    /\ \E o \in ops, f \in BOOLEAN, a \in PricingArgs :
          /\ f => o = "glp"
          /\ (o # "price") => a = CHOOSE x \in PricingArgs : TRUE
          /\ pc' = [pc EXCEPT ![t] = EntryPc(o)]
          /\ op' = [op EXCEPT ![t] = o]
          /\ force' = [force EXCEPT ![t] = f]
          /\ args' = [args EXCEPT ![t] = IF o = "price" THEN a ELSE Nil]
          /\ burst' = IF /\ burst.ok
                         /\ o = "glp" /\ ~f
                         /\ now = StartTime
                         /\ t \notin burst.callers
                      THEN [ok |-> TRUE, callers |-> burst.callers \cup {t}]
                      ELSE [ok |-> FALSE, callers |-> {}]
          /\ attempts' = IF burst'.ok THEN attempts
                         ELSE [n \in {"myb-be", "goldprice.org"} |-> 0]
    /\ nCalls' = nCalls + 1
    /\ liveAtCall' = [liveAtCall EXCEPT ![t] = lastLive]
    /\ callAt' = [callAt EXCEPT ![t] = IF pc'[t] = "lock" /\ op'[t] = "price" THEN now ELSE 0]
    /\ UNCHANGED << downstream, construction, now, tz, ticks, cacheFile, tmpFile, lockHolder, lastApiCall,
                    ep, sleepFrom, out, ret, path, tried, obs, lastRefreshAt,
                    prevPricing, lastLive >>

----------------------------------------------------------------------------
(* get_live_gold_price (also run by calculate_expected_price) *)

IsGlp(t) == op[t] \in {"glp", "price"}

\* with self._cache_lock:
Acquire(t) ==
    /\ pc[t] = "lock"
    /\ lockHolder[cacheLock] = 0
    /\ lockHolder' = [lockHolder EXCEPT ![cacheLock] = t]
    /\ pc' = [pc EXCEPT ![t] = IF force[t] THEN "rate" ELSE "check"]
    /\ UNCHANGED << downstream, construction, now, tz, ticks, nCalls, cacheFile, tmpFile, lastApiCall,
                    op, force, args, ep, sleepFrom, callAt, out, ret, path,
                    tried, obs, attempts, burst, lastRefreshAt,
                    prevPricing, lastLive, liveAtCall >>

\* if not force_refresh: return the persisted snapshot when it is valid
CheckCache(t) ==
    /\ pc[t] = "check"
    /\ LET cached_data == ReadCacheSafe(cacheFile)
       IN  IF cached_data # Nil /\ IsCacheValid(cached_data, now, tz)
           THEN /\ ret' = [ret EXCEPT ![t] = cached_data]
                /\ path' = [path EXCEPT ![t] = "hit"]
                /\ pc' = [pc EXCEPT ![t] = "release"]
           ELSE /\ pc' = [pc EXCEPT ![t] = "rate"]
                /\ UNCHANGED << ret, path >>
    /\ UNCHANGED << downstream, construction, now, tz, ticks, nCalls, cacheFile, tmpFile, lockHolder,
                    lastApiCall, op, force, args, ep, sleepFrom, callAt, out,
                    tried, obs, attempts, burst, lastRefreshAt,
                    prevPricing, lastLive, liveAtCall >>

\* the rate limit: within _min_api_interval of the last successful fetch,
\* return the persisted snapshot re-tagged, or sleep when there is none
RateCheck(t) ==
    /\ pc[t] = "rate"
    /\ LET current_time == now
       IN  IF current_time - lastApiCall < MIN_API_INTERVAL
           THEN LET cached_data == ReadCacheSafe(cacheFile)
                IN  IF cached_data # Nil
                    THEN /\ ret' = [ret EXCEPT ![t] =
                                       [cached_data EXCEPT !.source = "cached_rate_limited"]]
                         /\ path' = [path EXCEPT ![t] = "rate_limited"]
                         /\ pc' = [pc EXCEPT ![t] = "release"]
                         /\ UNCHANGED << lastRefreshAt, sleepFrom >>
                    ELSE /\ pc' = [pc EXCEPT ![t] = "sleep"]
                         /\ sleepFrom' = [sleepFrom EXCEPT ![t] = current_time]
                         /\ UNCHANGED << ret, path, lastRefreshAt >>
           ELSE /\ pc' = [pc EXCEPT ![t] = "fetch"]
                /\ lastRefreshAt' = now
                /\ UNCHANGED << ret, path, sleepFrom >>
    /\ UNCHANGED << downstream, construction, now, tz, ticks, nCalls, cacheFile, tmpFile, lockHolder,
                    lastApiCall, op, force, args, ep, callAt, out, tried, obs,
                    attempts, burst, prevPricing, lastLive, liveAtCall >>

\* time.sleep(self._min_api_interval) returns
SleepDone(t) ==
    /\ pc[t] = "sleep"
    /\ now >= sleepFrom[t] + MIN_API_INTERVAL
    /\ pc' = [pc EXCEPT ![t] = "fetch"]
    /\ sleepFrom' = [sleepFrom EXCEPT ![t] = 0]
    /\ lastRefreshAt' = now
    /\ UNCHANGED << downstream, construction, now, tz, ticks, nCalls, cacheFile, tmpFile, lockHolder,
                    lastApiCall, op, force, args, ep, callAt, out, ret,
                    path, tried, obs, attempts, burst, prevPricing, lastLive, liveAtCall >>

\* _fetch_from_api sends its request to API_ENDPOINTS[ep]
FetchStart(t) ==
    /\ pc[t] = "fetch"
    /\ pc' = [pc EXCEPT ![t] = "fetching"]
    /\ tried' = [tried EXCEPT ![t] = Append(@, << API_ENDPOINTS[ep[t]], "pending" >>)]
    /\ attempts' = IF burst.ok
                   THEN [attempts EXCEPT ![API_ENDPOINTS[ep[t]]] = @ + 1]
                   ELSE attempts
    /\ UNCHANGED << downstream, construction, now, tz, ticks, nCalls, cacheFile, tmpFile, lockHolder,
                    lastApiCall, op, force, args, ep, sleepFrom, callAt, out, ret,
                    path, obs, burst, lastRefreshAt, prevPricing, lastLive, liveAtCall >>

\* a loop without its break
LoopNeverBreaks(result) == FALSE

\* if result: output = result; self._last_api_call = time.time(); break
LoopBreaks(result) == result # Nil

\* _fetch_from_api returns, and the loop over API_ENDPOINTS goes on or ends
FetchEnd(t) ==
    /\ pc[t] = "fetching"
    /\ \E outcome \in FetchOutcomes, resp \in Responses(API_ENDPOINTS[ep[t]]) :
          LET name   == API_ENDPOINTS[ep[t]]
              result == FetchFromApi(name, outcome, resp, now)
          IN  /\ (outcome # "ok") => resp = CHOOSE r \in Responses(name) : TRUE
              /\ tried' = [tried EXCEPT ![t][Len(tried[t])] =
                                 << name, IF result # Nil THEN "ok" ELSE "failed" >>]
              /\ out' = [out EXCEPT ![t] = IF result # Nil THEN result ELSE @]
              /\ lastApiCall' = IF result # Nil THEN now ELSE lastApiCall
              /\ IF LoopBreaks(result)
                 THEN /\ pc' = [pc EXCEPT ![t] = "write"]
                      /\ UNCHANGED ep
                 ELSE IF ep[t] < Len(API_ENDPOINTS)
                 THEN /\ pc' = [pc EXCEPT ![t] = "fetch"]
                      /\ ep' = [ep EXCEPT ![t] = @ + 1]
                 ELSE /\ pc' = [pc EXCEPT ![t] =
                                   IF out'[t] = Nil THEN "fallback" ELSE "write"]
                      /\ UNCHANGED ep
              /\ UNCHANGED << ret, path >>
    /\ UNCHANGED << downstream, construction, now, tz, ticks, nCalls, cacheFile, tmpFile, lockHolder,
                    op, force, args, sleepFrom, callAt, obs, attempts, burst,
                    lastRefreshAt, prevPricing, lastLive, liveAtCall >>

\* if output is None: return self._calculate_fallback_prices()
Fallback(t) ==
    /\ pc[t] = "fallback"
    /\ LET r == CalculateFallbackPrices(ReadCacheSafe(cacheFile), now)
       IN  /\ ret' = [ret EXCEPT ![t] = r]
           /\ path' = [path EXCEPT ![t] = IF r = Raised THEN "raised" ELSE "allfail"]
    /\ pc' = [pc EXCEPT ![t] = "release"]
    /\ UNCHANGED << downstream, construction, now, tz, ticks, nCalls, cacheFile, tmpFile, lockHolder,
                    lastApiCall, op, force, args, ep, sleepFrom, callAt, out,
                    tried, obs, attempts, burst, lastRefreshAt,
                    prevPricing, lastLive, liveAtCall >>

----------------------------------------------------------------------------
(* _write_cache_safe *)

\* a dump straight into CACHE_FILE
WritePathInPlace == "cache"

\* the path json.dump writes to: temp_file = CACHE_FILE.with_suffix('.tmp')
WritePath == "tmp"

\* open(temp_file, 'w') creates or truncates the file
WriteOpen(t) ==
    /\ pc[t] = "write"
    /\ IF WritePath = "tmp"
       THEN tmpFile' = NewFile(out[t]) /\ UNCHANGED cacheFile
       ELSE cacheFile' = NewFile(out[t]) /\ UNCHANGED tmpFile
    /\ pc' = [pc EXCEPT ![t] = "wdata"]
    /\ UNCHANGED << downstream, construction, now, tz, ticks, nCalls, lockHolder, lastApiCall, op, force,
                    args, ep, sleepFrom, callAt, out, ret, path, tried, obs,
                    attempts, burst, lastRefreshAt, prevPricing, lastLive, liveAtCall >>

\* json.dump writes the next chunk; after the last one, flush, fsync, close
WriteChunk(t) ==
    /\ pc[t] = "wdata"
    /\ IF WritePath = "tmp"
       THEN /\ tmpFile' = [tmpFile EXCEPT !.written = @ + 1]
            /\ pc' = [pc EXCEPT ![t] =
                         IF tmpFile'.written = NumChunks THEN "wrename" ELSE "wdata"]
            /\ UNCHANGED cacheFile
       ELSE /\ cacheFile' = [cacheFile EXCEPT !.written = @ + 1]
            /\ pc' = [pc EXCEPT ![t] =
                         IF cacheFile'.written = NumChunks THEN "wrename" ELSE "wdata"]
            /\ UNCHANGED tmpFile
    /\ UNCHANGED << downstream, construction, now, tz, ticks, nCalls, lockHolder, lastApiCall, op, force,
                    args, ep, sleepFrom, callAt, out, ret, path, tried, obs,
                    attempts, burst, lastRefreshAt, prevPricing, lastLive, liveAtCall >>

\* temp_file.replace(self.CACHE_FILE); return True; then return output
WriteRename(t) ==
    /\ pc[t] = "wrename"
    /\ IF WritePath = "tmp"
       THEN cacheFile' = tmpFile /\ tmpFile' = Nil
       ELSE UNCHANGED << cacheFile, tmpFile >>
    /\ ret' = [ret EXCEPT ![t] = out[t]]
    /\ path' = [path EXCEPT ![t] = "live"]
    /\ pc' = [pc EXCEPT ![t] = "release"]
    /\ UNCHANGED << downstream, construction, now, tz, ticks, nCalls, lockHolder, lastApiCall, op, force,
                    args, ep, sleepFrom, callAt, out, tried, obs, attempts, burst,
                    lastRefreshAt, prevPricing, lastLive, liveAtCall >>

\* open, write, fsync or replace raises: except Exception: return False;
\* get_live_gold_price ignores the result and returns output.  What a failed
\* write leaves in the file it was writing stays there
WriteFail(t) ==
    /\ pc[t] \in {"write", "wdata", "wrename"}
    /\ ret' = [ret EXCEPT ![t] = out[t]]
    /\ path' = [path EXCEPT ![t] = "live_unsaved"]
    /\ pc' = [pc EXCEPT ![t] = "release"]
    /\ UNCHANGED << downstream, construction, now, tz, ticks, nCalls, cacheFile, tmpFile, lockHolder,
                    lastApiCall, op, force, args, ep, sleepFrom, callAt, out,
                    tried, obs, attempts, burst, lastRefreshAt,
                    prevPricing, lastLive, liveAtCall >>

\* the call has returned: its locals are gone
Forget(t) ==
    /\ pc' = [pc EXCEPT ![t] = "idle"]
    /\ op' = [op EXCEPT ![t] = "none"]
    /\ force' = [force EXCEPT ![t] = FALSE]
    /\ args' = [args EXCEPT ![t] = Nil]
    /\ ep' = [ep EXCEPT ![t] = 1]
    /\ sleepFrom' = [sleepFrom EXCEPT ![t] = 0]
    /\ callAt' = [callAt EXCEPT ![t] = 0]
    /\ out' = [out EXCEPT ![t] = Nil]
    /\ ret' = [ret EXCEPT ![t] = Nil]
    /\ path' = [path EXCEPT ![t] = "none"]
    /\ tried' = [tried EXCEPT ![t] = << >>]
    /\ obs' = [obs EXCEPT ![t] = "none"]
    /\ liveAtCall' = [liveAtCall EXCEPT ![t] = -1]

\* the with block is left and the call returns; calculate_expected_price
\* prices its arguments from the snapshot it got
Release(t) ==
    /\ pc[t] = "release"
    /\ lockHolder' = [lockHolder EXCEPT ![cacheLock] = 0]
    /\ prevPricing' =
          IF op[t] = "price" /\ ret[t] # Raised
          THEN [ args  |-> args[t],
                 at    |-> callAt[t],
                 via   |-> path[t],
                 total_expected |->
                     CalculateExpectedPrice(ret[t], args[t].weight, args[t].purity,
                                            args[t].product_type).total_expected ]
          ELSE prevPricing
    /\ lastLive' = IF IsGlp(t) /\ ret[t] # Raised /\ ret[t].source = "live_api"
                   THEN ret[t].timestamp
                   ELSE lastLive
    /\ Forget(t)
    /\ UNCHANGED << downstream, construction, now, tz, ticks, nCalls, cacheFile, tmpFile, lastApiCall,
                    attempts, burst, lastRefreshAt >>

\* an operation that took no lock returns
Return(t) ==
    /\ pc[t] = "done"
    /\ Forget(t)
    /\ UNCHANGED << downstream, construction, now, tz, ticks, nCalls, cacheFile, tmpFile, lockHolder,
                    lastApiCall, attempts, burst, lastRefreshAt,
                    prevPricing, lastLive >>

----------------------------------------------------------------------------
(* clear_cache *)

ClearAcquire(t) ==
    /\ pc[t] = "clr_lock"
    /\ lockHolder[cacheLock] = 0
    /\ lockHolder' = [lockHolder EXCEPT ![cacheLock] = t]
    /\ pc' = [pc EXCEPT ![t] = "clr"]
    /\ UNCHANGED << downstream, construction, now, tz, ticks, nCalls, cacheFile, tmpFile, lastApiCall,
                    op, force, args, ep, sleepFrom, callAt, out, ret, path,
                    tried, obs, attempts, burst, lastRefreshAt,
                    prevPricing, lastLive, liveAtCall >>

\* if self.CACHE_FILE.exists(): self.CACHE_FILE.unlink()
ClearUnlink(t) ==
    /\ pc[t] = "clr"
    /\ cacheFile' = Nil
    /\ path' = [path EXCEPT ![t] = "cleared"]
    /\ pc' = [pc EXCEPT ![t] = "release"]
    /\ UNCHANGED << downstream, construction, now, tz, ticks, nCalls, tmpFile, lockHolder, lastApiCall,
                    op, force, args, ep, sleepFrom, callAt, out, ret, tried, obs,
                    attempts, burst, lastRefreshAt, prevPricing, lastLive, liveAtCall >>

----------------------------------------------------------------------------
(* test_api_connectivity: every endpoint is fetched, without the lock *)

TestFetchStart(t) ==
    /\ pc[t] = "tfetch"
    /\ pc' = [pc EXCEPT ![t] = "tfetching"]
    /\ tried' = [tried EXCEPT ![t] = Append(@, << API_ENDPOINTS[ep[t]], "pending" >>)]
    /\ attempts' = IF burst.ok
                   THEN [attempts EXCEPT ![API_ENDPOINTS[ep[t]]] = @ + 1]
                   ELSE attempts
    /\ UNCHANGED << downstream, construction, now, tz, ticks, nCalls, cacheFile, tmpFile, lockHolder,
                    lastApiCall, op, force, args, ep, sleepFrom, callAt, out, ret,
                    path, obs, burst, lastRefreshAt, prevPricing, lastLive, liveAtCall >>

TestFetchEnd(t) ==
    /\ pc[t] = "tfetching"
    /\ \E status \in {"ok", "failed"} :
          tried' = [tried EXCEPT ![t][Len(tried[t])] = << API_ENDPOINTS[ep[t]], status >>]
    /\ IF ep[t] < Len(API_ENDPOINTS)
       THEN /\ ep' = [ep EXCEPT ![t] = @ + 1]
            /\ pc' = [pc EXCEPT ![t] = "tfetch"]
            /\ UNCHANGED path
       ELSE /\ pc' = [pc EXCEPT ![t] = "done"]
            /\ path' = [path EXCEPT ![t] = "tested"]
            /\ UNCHANGED ep
    /\ UNCHANGED << downstream, construction, now, tz, ticks, nCalls, cacheFile, tmpFile, lockHolder,
                    lastApiCall, op, force, args, sleepFrom, callAt, out, ret,
                    obs, attempts, burst, lastRefreshAt, prevPricing, lastLive, liveAtCall >>

----------------------------------------------------------------------------
(* get_cache_age: _read_cache_safe without the lock *)

\* if not self.CACHE_FILE.exists(): return None
AgeExists(t) ==
    /\ pc[t] = "age_exists"
    /\ IF cacheFile = Nil
       THEN /\ obs' = [obs EXCEPT ![t] = "absent"]
            /\ pc' = [pc EXCEPT ![t] = "done"]
       ELSE /\ pc' = [pc EXCEPT ![t] = "age_read"]
            /\ UNCHANGED obs
    /\ UNCHANGED << downstream, construction, now, tz, ticks, nCalls, cacheFile, tmpFile, lockHolder,
                    lastApiCall, op, force, args, ep, sleepFrom, callAt, out, ret,
                    path, tried, attempts, burst, lastRefreshAt,
                    prevPricing, lastLive, liveAtCall >>

\* open, flock(LOCK_SH), json.load; then the age against datetime.now()
AgeRead(t) ==
    /\ pc[t] = "age_read"
    /\ obs' = [obs EXCEPT ![t] =
                  IF cacheFile = Nil THEN "absent"
                  ELSE IF IsComplete(cacheFile) THEN "whole" ELSE "torn"]
    /\ ret' = [ret EXCEPT ![t] = ReadCacheSafe(cacheFile)]
    /\ path' = [path EXCEPT ![t] = "age"]
    /\ pc' = [pc EXCEPT ![t] = "done"]
    /\ UNCHANGED << downstream, construction, now, tz, ticks, nCalls, cacheFile, tmpFile, lockHolder,
                    lastApiCall, op, force, args, ep, sleepFrom, callAt, out,
                    tried, attempts, burst, lastRefreshAt, prevPricing, lastLive, liveAtCall >>

----------------------------------------------------------------------------
(* Construction: GoldPriceCalculator() runs __new__ and then __init__ on   *)
(* the object __new__ returned; the thread then uses the instance          *)

\* the state before the first GoldPriceCalculator(): the class attributes
\* _instance = None and _lock = threading.Lock()
InitCtor ==
    /\ now = StartTime
    /\ tz = 0
    /\ ticks = 0
    /\ nCalls = 0
    /\ cacheFile = Nil
    /\ tmpFile = Nil
    /\ classLock = 0
    /\ instance = 0
    /\ nInstances = 0
    /\ initialized = FALSE
    /\ cacheLock = 0
    /\ lockHolder = << >>
    /\ nMarkerInits = 0
    /\ self = [t \in Threads |-> 0]
    /\ lastApiCall = -1
    /\ pc = [t \in Threads |-> "idle"]
    /\ op = [t \in Threads |-> "none"]
    /\ force = [t \in Threads |-> FALSE]
    /\ args = [t \in Threads |-> Nil]
    /\ ep = [t \in Threads |-> 1]
    /\ sleepFrom = [t \in Threads |-> 0]
    /\ callAt = [t \in Threads |-> 0]
    /\ out = [t \in Threads |-> Nil]
    /\ ret = [t \in Threads |-> Nil]
    /\ path = [t \in Threads |-> "none"]
    /\ tried = [t \in Threads |-> << >>]
    /\ obs = [t \in Threads |-> "none"]
    /\ attempts = [n \in {"myb-be", "goldprice.org"} |-> 0]
    /\ burst = [ok |-> FALSE, callers |-> {}]
    /\ lastRefreshAt = -1
    /\ prevPricing = Nil
    /\ lastLive = -1
    /\ liveAtCall = [t \in Threads |-> -1]
    /\ NoScraping

\* a thread evaluates GoldPriceCalculator()
Construct(t) ==
    /\ pc[t] = "idle"
    /\ pc' = [pc EXCEPT ![t] = "new_lock"]
    /\ self' = [self EXCEPT ![t] = 0]
    /\ UNCHANGED << downstream, calls, classLock, instance, nInstances, initialized,
                    cacheLock, lockHolder, nMarkerInits, lastApiCall >>

\* __new__: with cls._lock:
NewAcquire(t) ==
    /\ pc[t] = "new_lock"
    /\ classLock = 0
    /\ classLock' = t
    /\ pc' = [pc EXCEPT ![t] = "new_body"]
    /\ UNCHANGED << downstream, calls, instance, nInstances, initialized, cacheLock,
                    lockHolder, nMarkerInits, self, lastApiCall >>

\* if cls._instance is None: cls._instance = super().__new__(cls);
\* return cls._instance (which leaves the with block)
NewBody(t) ==
    /\ pc[t] = "new_body"
    /\ IF instance = 0
       THEN /\ nInstances' = nInstances + 1
            /\ instance' = nInstances'
       ELSE UNCHANGED << instance, nInstances >>
    /\ self' = [self EXCEPT ![t] = instance']
    /\ classLock' = 0
    /\ pc' = [pc EXCEPT ![t] = "init_check"]
    /\ UNCHANGED << downstream, calls, initialized, cacheLock, lockHolder, nMarkerInits,
                    lastApiCall >>

\* __init__: if hasattr(self, '_initialized'): return
InitCheck(t) ==
    /\ pc[t] = "init_check"
    /\ pc' = [pc EXCEPT ![t] = IF initialized THEN "ready" ELSE "init_marker"]
    /\ UNCHANGED << downstream, calls, construction, lockHolder, lastApiCall >>

\* self._last_api_call = 0
InitMarker(t) ==
    /\ pc[t] = "init_marker"
    /\ lastApiCall' = 0
    /\ nMarkerInits' = nMarkerInits + 1
    /\ pc' = [pc EXCEPT ![t] = "init_lock"]
    /\ UNCHANGED << downstream, calls, classLock, instance, nInstances, initialized,
                    cacheLock, lockHolder, self >>

\* self._cache_lock = threading.Lock(): a new, free Lock object
InitLock(t) ==
    /\ pc[t] = "init_lock"
    /\ lockHolder' = Append(lockHolder, 0)
    /\ cacheLock' = Len(lockHolder')
    /\ pc' = [pc EXCEPT ![t] = "init_flag"]
    /\ UNCHANGED << downstream, calls, classLock, instance, nInstances, initialized,
                    nMarkerInits, self, lastApiCall >>

\* self._initialized = True
InitFlag(t) ==
    /\ pc[t] = "init_flag"
    /\ initialized' = TRUE
    /\ pc' = [pc EXCEPT ![t] = "ready"]
    /\ UNCHANGED << downstream, calls, classLock, instance, nInstances, cacheLock,
                    lockHolder, nMarkerInits, self, lastApiCall >>

\* the Lock object thread t holds, 0 if none
HeldBy(t) ==
    IF \E l \in 1 .. Len(lockHolder) : lockHolder[l] = t
    THEN CHOOSE l \in 1 .. Len(lockHolder) : lockHolder[l] = t
    ELSE 0

\* the constructed instance is used: get_live_gold_price enters
\* with self._cache_lock on the Lock the attribute names at that moment
UseAcquire(t) ==
    /\ pc[t] = "ready"
    /\ lockHolder[cacheLock] = 0
    /\ lockHolder' = [lockHolder EXCEPT ![cacheLock] = t]
    /\ pc' = [pc EXCEPT ![t] = "using"]
    /\ UNCHANGED << downstream, calls, construction, lastApiCall >>

\* inside the with block a fetch succeeds: self._last_api_call = time.time()
UseMark(t) ==
    /\ pc[t] = "using"
    /\ lastApiCall' = now
    /\ pc' = [pc EXCEPT ![t] = "marked"]
    /\ UNCHANGED << downstream, calls, construction, lockHolder >>

\* the with block is left: the Lock that was acquired is released
UseRelease(t) ==
    /\ pc[t] \in {"using", "marked"}
    /\ lockHolder' = [lockHolder EXCEPT ![HeldBy(t)] = 0]
    /\ pc' = [pc EXCEPT ![t] = "idle"]
    /\ UNCHANGED << downstream, calls, construction, lastApiCall >>

----------------------------------------------------------------------------
(* The scraper's pass over one listing, and direct calls of the pure       *)
(* functions of the calculator                                             *)

\* the arguments the direct calls of calculate_expected_price draw from
ExpectedPriceCalls ==
    { [ fn           |-> "calculate_expected_price",
        gold_data    |-> g,
        weight       |-> w,
        purity       |-> p,
        product_type |-> ty ] :
      g \in Snapshots, w \in {500, 4500, 10000},
      p \in {"24K", "22K", "18K", "14K"}, ty \in {"coin", "jewellery"} }

\* the arguments the direct calls of calculate_discount_percentage draw
\* from, in paise
DiscountCalls ==
    { [ fn             |-> "calculate_discount_percentage",
        selling_price  |-> s,
        expected_price |-> e ] :
      s \in {0, 1, 50000, 100000, 150000, 250000, 400001},
      e \in {-100000, 0, 300, 33300, 70000, 100000, 133300, 150000} }

InitScraper ==
    /\ InitCalculator
    /\ tz = 0
    /\ cacheFile = Nil
    /\ listing \in Listings
    /\ parsed = Pending
    /\ product = Pending
    /\ invocation = Nil
    /\ returned = Pending
    /\ NoFiltering
    /\ ApiStarted

InitFunctions ==
    /\ InitCalculator
    /\ tz = 0
    /\ cacheFile = Nil
    /\ listing = Nil
    /\ parsed = Pending
    /\ product = Pending
    /\ invocation \in ExpectedPriceCalls \cup DiscountCalls
    /\ returned = Pending
    /\ NoFiltering
    /\ ApiStarted

\* extract_purity_and_weight(title)
ExtractCall ==
    /\ listing # Nil
    /\ parsed = Pending
    /\ parsed' = ExtractPurityAndWeight(listing.title)
    /\ UNCHANGED << calculator, finder, api, listing, product, invocation, returned >>

\* _parse_ajio_product, _parse_myntra_product: the listing is dropped
\* (None) or becomes a product
ParseListing ==
    /\ listing # Nil
    /\ product = Pending
    /\ \E gold_data \in Snapshots :
           product' = IF ~IsGoldListing(listing) THEN Nil
                      ELSE ParseProduct(listing,
                                        ExtractPurityAndWeight(listing.title),
                                        gold_data)
    /\ UNCHANGED << calculator, finder, api, listing, parsed, invocation, returned >>

\* calculate_expected_price(weight, purity, product_type)
ExpectedPriceCall ==
    /\ invocation # Nil
    /\ invocation.fn = "calculate_expected_price"
    /\ returned = Pending
    /\ returned' = CalculateExpectedPrice(invocation.gold_data, invocation.weight,
                                          invocation.purity,
                                          invocation.product_type)
    /\ UNCHANGED << calculator, finder, api, listing, parsed, product, invocation >>

\* calculate_discount_percentage(selling_price, expected_price)
DiscountCall ==
    /\ invocation # Nil
    /\ invocation.fn = "calculate_discount_percentage"
    /\ returned = Pending
    /\ returned' = [ value |-> CalculateDiscountPercentage(
                                   invocation.selling_price,
                                   invocation.expected_price) ]
    /\ UNCHANGED << calculator, finder, api, listing, parsed, product, invocation >>

----------------------------------------------------------------------------
(* The deal filters *)

\* the keys of the products of a list
KeysOf(deals) == { ProductKey(deals[i]) : i \in 1 .. Len(deals) }

\* the return of GoldDealFinder.filter_good_deals, st being what its loop
\* left
FinderReturns(batch, st) ==
    /\ sent_alerts' = st.sent_alerts
    /\ deals_history' = st.deals_history
    /\ good_deals' = [ batch         |-> batch,
                       admitted      |-> st.good_deals,
                       deals         |-> Truncated(SortedByDiscount(st.good_deals)),
                       alerts_before |-> sent_alerts ]
    /\ earlier_keys' = earlier_keys \cup
                       (IF good_deals = Pending THEN {} ELSE KeysOf(good_deals.deals))

\* GoldDealFinder.filter_good_deals(products)
FinderFilterGoodDeals ==
    /\ cycles < MaxCycles
    /\ cycles' = cycles + 1
    /\ \E batch \in Batches :
          FinderReturns(batch, FilterLoop(batch, [ good_deals    |-> << >>,
                                                   sent_alerts   |-> sent_alerts,
                                                   deals_history |-> deals_history ]))
    /\ UNCHANGED << calculator, scraping, api, top_deals >>

\* the return of GitHubActionsScanner.filter_good_deals
ScannerReturns(batch, admitted) ==
    top_deals' = [ batch    |-> batch,
                   admitted |-> admitted,
                   deals    |-> Truncated(SortedByDiscount(admitted)) ]

\* GitHubActionsScanner.filter_good_deals(products)
ScannerFilterGoodDeals ==
    /\ cycles < MaxCycles
    /\ cycles' = cycles + 1
    /\ \E batch \in Batches : ScannerReturns(batch, ScannerLoop(batch))
    /\ UNCHANGED << calculator, scraping, api, sent_alerts, deals_history,
                    good_deals, earlier_keys >>

----------------------------------------------------------------------------
(* The handlers of the HTTP API *)

\* the clock of the API host moves on
ApiTick ==
    /\ clock_ticks < MaxClockTicks
    /\ clock_ticks' = clock_ticks + 1
    /\ \E d \in ClockSteps : clock' = clock + d
    /\ UNCHANGED << calculator, scraping, finder, last_scan_time, response_cache,
                    data_dir, background_tasks, response, scrapes, succeeded,
                    requests >>

\* scan_products past the cooldown check: last_scan_time = now, then
\* scrape_all(), add_task(save_results, ...), response_cache = {} and the
\* success response, or the 500 of the except clause
ScanAccepted(outcome) ==
    /\ last_scan_time' = clock
    /\ scrapes' = Append(scrapes, clock)
    /\ IF outcome = "raised"
       THEN /\ response' = [ endpoint |-> "scan", status |-> 500,
                             scrapes_before |-> Len(scrapes) ]
            /\ UNCHANGED << response_cache, background_tasks, succeeded >>
       ELSE /\ background_tasks' = background_tasks \cup
                                   { [scan_id |-> clock, opened |-> FALSE] }
            /\ response_cache' = EmptyCache
            /\ succeeded' = succeeded \cup { clock }
            /\ response' = [ endpoint |-> "scan", status |-> 200,
                             scrapes_before |-> Len(scrapes) ]

\* GET /api/v1/scan
ScanProducts ==
    /\ requests < MaxRequests
    /\ requests' = requests + 1
    /\ IF CooldownActive(last_scan_time, clock)
       THEN /\ response' = [ endpoint |-> "scan", status |-> 429,
                             scrapes_before |-> Len(scrapes) ]
            /\ UNCHANGED << last_scan_time, scrapes, response_cache,
                            background_tasks, succeeded >>
       ELSE \E outcome \in ScrapeOutcomes : ScanAccepted(outcome)
    /\ UNCHANGED << calculator, scraping, finder, clock, clock_ticks, data_dir >>

\* the response of get_latest_products
LatestResponse(data, files, from_cache) ==
    [ endpoint  |-> "latest", status |-> 200, data |-> data,
      files     |-> files,
      cached    |-> from_cache,
      succeeded |-> succeeded ]

\* GET /api/v1/products/latest
GetLatestProducts ==
    /\ requests < MaxRequests
    /\ requests' = requests + 1
    /\ \E limit \in Limits :
          IF CachedData(response_cache, limit, clock) # {}
          THEN /\ response' = LatestResponse(response_cache[limit].data,
                                             response_cache[limit].files, TRUE)
               /\ UNCHANGED response_cache
          ELSE IF data_dir = {}
          THEN /\ response' = LatestResponse({}, {}, FALSE)
               /\ response_cache' = AfterLookup(response_cache, limit, clock)
          ELSE \E latest \in Newest(data_dir) :
                  /\ response' = LatestResponse(ProductsOf(latest),
                                                WrittenScans(data_dir), FALSE)
                  /\ response_cache' =
                        [ response_cache EXCEPT ![limit] =
                            [ data      |-> ProductsOf(latest),
                              timestamp |-> clock,
                              files     |-> WrittenScans(data_dir) ] ]
    /\ UNCHANGED << calculator, scraping, finder, clock, clock_ticks,
                    last_scan_time, data_dir, background_tasks, scrapes,
                    succeeded >>

\* POST /api/v1/cache/clear
ClearResponseCache ==
    /\ requests < MaxRequests
    /\ requests' = requests + 1
    /\ response_cache' = EmptyCache
    /\ response' = [ endpoint |-> "cache/clear", status |-> 200 ]
    /\ UNCHANGED << calculator, scraping, finder, clock, clock_ticks,
                    last_scan_time, data_dir, background_tasks, scrapes,
                    succeeded >>

\* save_results: open(filename, 'w')
SaveOpen ==
    /\ \E task \in background_tasks :
          /\ ~ task.opened
          /\ data_dir' = Opened(data_dir, task.scan_id, clock)
          /\ background_tasks' = (background_tasks \ { task })
                                 \cup { [task EXCEPT !.opened = TRUE] }
    /\ UNCHANGED << calculator, scraping, finder, clock, clock_ticks,
                    last_scan_time, response_cache, response, scrapes,
                    succeeded, requests >>

\* save_results: json.dump and the close of the file
SaveDump ==
    /\ \E task \in background_tasks :
          /\ task.opened
          /\ data_dir' = Dumped(data_dir, task.scan_id, clock)
          /\ background_tasks' = background_tasks \ { task }
    /\ UNCHANGED << calculator, scraping, finder, clock, clock_ticks,
                    last_scan_time, response_cache, response, scrapes,
                    succeeded, requests >>

----------------------------------------------------------------------------
(* Specifications *)

\* the steps of get_live_gold_price
GlpStep(t) ==
    \/ Acquire(t)
    \/ CheckCache(t)
    \/ RateCheck(t)
    \/ SleepDone(t)
    \/ FetchStart(t)
    \/ FetchEnd(t)
    \/ Fallback(t)
    \/ WriteOpen(t)
    \/ WriteChunk(t)
    \/ WriteRename(t)
    \/ WriteFail(t)
    \/ Release(t)

\* threads calling get_live_gold_price, with and without force_refresh
Next ==
    \/ Tick
    \/ \E t \in Threads : Call(t, {"glp"}) \/ GlpStep(t)

Spec == Init /\ [][Next]_vars

\* threads calling calculate_expected_price
NextPricing ==
    \/ Tick
    \/ \E t \in Threads : Call(t, {"price"}) \/ GlpStep(t)

SpecPricing == Init /\ [][NextPricing]_vars

\* threads calling get_live_gold_price, test_api_connectivity, get_cache_age
\* and clear_cache
NextOps ==
    \/ Tick
    \/ \E t \in Threads :
          \/ Call(t, {"glp", "test", "age", "clear"})
          \/ GlpStep(t)
          \/ ClearAcquire(t)
          \/ ClearUnlink(t)
          \/ TestFetchStart(t)
          \/ TestFetchEnd(t)
          \/ AgeExists(t)
          \/ AgeRead(t)
          \/ Return(t)

SpecOps == Init /\ [][NextOps]_vars

\* threads constructing GoldPriceCalculator() and using what they got
NextCtor ==
    \E t \in Threads :
        \/ Construct(t)
        \/ NewAcquire(t)
        \/ NewBody(t)
        \/ InitCheck(t)
        \/ InitMarker(t)
        \/ InitLock(t)
        \/ InitFlag(t)
        \/ UseAcquire(t)
        \/ UseMark(t)
        \/ UseRelease(t)

SpecCtor == InitCtor /\ [][NextCtor]_vars

\* the scraper handed one listing
NextScraper ==
    \/ ExtractCall
    \/ ParseListing

SpecScraper == InitScraper /\ [][NextScraper]_vars

\* one direct call of calculate_expected_price or of
\* calculate_discount_percentage
NextFunctions ==
    \/ ExpectedPriceCall
    \/ DiscountCall

SpecFunctions == InitFunctions /\ [][NextFunctions]_vars


\* the calculator after construction, and nothing downstream of it has run
InitDownstream ==
    /\ InitCalculator
    /\ tz = 0
    /\ cacheFile = Nil
    /\ NoScraping

\* a GoldDealFinder and a GitHubActionsScanner filter the batches of
\* successive cycles
NextFinder ==
    \/ FinderFilterGoodDeals
    \/ ScannerFilterGoodDeals

SpecFinder == InitDownstream /\ [][NextFinder]_vars

\* the API serves requests while its background tasks run
NextApi ==
    \/ ApiTick
    \/ ScanProducts
    \/ GetLatestProducts
    \/ ClearResponseCache
    \/ SaveOpen
    \/ SaveDump

SpecApi == InitDownstream /\ [][NextApi]_vars

----------------------------------------------------------------------------
(* Properties of the spot price cache *)

\* the call of thread t is about to return from get_live_gold_price
Returning(t) == IsGlp(t) /\ pc[t] = "release"

\* the call of thread t attempted every source and every one failed
AllSourcesFailed(t) ==
    /\ Len(tried[t]) = Len(API_ENDPOINTS)
    /\ \A i \in 1 .. Len(tried[t]) : tried[t][i][2] = "failed"

IsSnapshot(x) == x # Nil /\ x # Raised

SamePrices(a, b) ==
    /\ a.spot = b.spot
    /\ a.landed = b.landed
    /\ a.hasRaw = b.hasRaw
    /\ a.k24 = b.k24
    /\ a.k22 = b.k22
    /\ a.k18 = b.k18
    /\ a.k14 = b.k14

\* C1: a call in which every source failed while no cache file exists
\* returns, without an exception, the hardcoded snapshot: source
\* hardcoded_fallback and the fixed floor prices.
C1_FallbackGuarantee ==
    \A t \in Threads :
        (Returning(t) /\ AllSourcesFailed(t) /\ cacheFile = Nil)
        => /\ IsSnapshot(ret[t])
           /\ ret[t].source = "hardcoded_fallback"
           /\ SamePrices(ret[t], HardcodedSnapshot(now))

C1_Witness ==
    \E t \in Threads :
        /\ Returning(t) /\ AllSourcesFailed(t) /\ cacheFile = Nil
        /\ IsSnapshot(ret[t])
        /\ ret[t].source = "hardcoded_fallback"

\* C2: when the calls made so far are one burst of simultaneous
\* get_live_gold_price() calls on a cold cache, each source has been fetched
\* at most once.
C2_SingleFlight ==
    burst.ok => \A n \in DOMAIN attempts : attempts[n] <= 1

C4_CachedFallback ==
    \A t \in Threads :
        (Returning(t) /\ AllSourcesFailed(t) /\ cacheFile # Nil)
        => /\ IsSnapshot(ret[t])
           /\ ret[t].source = "cached_fallback"
           /\ SamePrices(ret[t], cacheFile.snap)

C4_Witness ==
    \E t \in Threads :
        /\ Returning(t) /\ AllSourcesFailed(t) /\ cacheFile # Nil
        /\ now - cacheFile.snap.timestamp >= CACHE_TTL
        /\ IsSnapshot(ret[t])
        /\ ret[t].source = "cached_fallback"

\* a snapshot is persisted and was created less than CACHE_TTL ago
FreshSnapshotPersisted ==
    /\ IsComplete(cacheFile)
    /\ now - cacheFile.snap.timestamp < CACHE_TTL

\* C5: a call without force_refresh returns the persisted snapshot
\* unchanged, having fetched nothing, exactly when a snapshot is persisted
\* whose real age is below CACHE_TTL: a cache hit implies a fresh snapshot,
\* and a call that went past the cache check had none.
C5_CacheHitRule ==
    \A t \in Threads :
        (IsGlp(t) /\ ~force[t])
        => /\ (pc[t] = "release" /\ path[t] = "hit")
                => /\ FreshSnapshotPersisted
                   /\ ret[t] = cacheFile.snap
                   /\ tried[t] = << >>
           /\ (pc[t] = "rate") => ~FreshSnapshotPersisted

\* a pass over API_ENDPOINTS starts in this step
RefreshStarts ==
    \E t \in Threads : pc[t] \in {"rate", "sleep"} /\ pc'[t] = "fetch"

\* C6: a refresh never starts less than _min_api_interval after the
\* previous refresh started.
C6_MinInterval ==
    [][ (RefreshStarts /\ lastRefreshAt # -1)
        => now - lastRefreshAt >= MIN_API_INTERVAL ]_vars

\* C7: within one refresh the sources are attempted in the order of
\* API_ENDPOINTS, a source is attempted only if the one before it failed in
\* that refresh (so none after a success), and no failure leaves the call
\* as an exception.
C7_SourcePriority ==
    \A t \in Threads :
        IsGlp(t)
        => /\ Len(tried[t]) <= Len(API_ENDPOINTS)
           /\ \A i \in 1 .. Len(tried[t]) :
                 /\ tried[t][i][1] = API_ENDPOINTS[i]
                 /\ i > 1 => tried[t][i - 1][2] = "failed"
           /\ ret[t] # Raised

C7_Witness ==
    \E t \in Threads :
        /\ IsGlp(t)
        /\ Len(tried[t]) = 2
        /\ tried[t][1] = << "myb-be", "failed" >>
        /\ tried[t][2] = << "goldprice.org", "ok" >>
        /\ pc[t] = "release"
        /\ IsSnapshot(ret[t])

\* the threads with an upstream request in flight
InFlight == { t \in Threads : pc[t] \in {"fetching", "tfetching"} }

\* C8: at most one upstream fetch is in flight at any moment.
C8_OneInFlight == Cardinality(InFlight) <= 1

\* a _write_cache_safe fails in this step
WriteFails ==
    \E t \in Threads :
        /\ pc[t] \in {"write", "wdata", "wrename"}
        /\ pc'[t] = "release"
        /\ path'[t] = "live_unsaved"

\* C9: the cache file, whenever it exists, holds one completely written
\* snapshot, so that no reader (get_cache_age takes no lock) finds a
\* partially written one; and a write that fails leaves the file as it was.
C9_AtomicPersistence ==
    /\ [](cacheFile # Nil => IsComplete(cacheFile))
    /\ [](\A t \in Threads : obs[t] # "torn")
    /\ [][WriteFails => cacheFile' = cacheFile]_vars

\* a get_cache_age read the previous snapshot whole while another thread
\* was part-way through writing a new one
C9_Witness ==
    \E t, u \in Threads :
        /\ op[t] = "age" /\ pc[t] = "done" /\ obs[t] = "whole"
        /\ pc[u] = "wdata"
        /\ tmpFile # Nil /\ tmpFile.written \in 1 .. NumChunks - 1

\* the threads inside a with self._cache_lock block
InCriticalSection == { t \in Threads : pc[t] \in {"using", "marked"} }

\* the threads that hold the constructed instance
Constructed == { t \in Threads : pc[t] \in {"ready", "using", "marked"} }

\* C10: every construction yields the one instance; once a thread holds the
\* constructed instance no construction replaces its lock or resets its
\* last-fetch-time marker; and the lock keeps the threads inside
\* with self._cache_lock apart.
C10_SingleSharedCache ==
    /\ [](nInstances <= 1 /\ \A t \in Threads : self[t] \in {0, instance})
    /\ [][ Constructed # {}
           => (cacheLock' = cacheLock /\ nMarkerInits' = nMarkerInits) ]_vars
    /\ [](Cardinality(InCriticalSection) <= 1)

\* the source tags the snapshots are to carry
ProvenanceTags == {"live_api", "cached_fallback", "hardcoded_fallback"}

\* C11: every snapshot get_live_gold_price returns, on every path, carries
\* a source tag that is one of live_api, cached_fallback, hardcoded_fallback.
C11_ProvenanceTag ==
    \A t \in Threads :
        (Returning(t) /\ IsSnapshot(ret[t])) => ret[t].source \in ProvenanceTags

\* a call returns a snapshot with source live_api in this step
ReturnsLive(t) ==
    /\ Returning(t) /\ pc'[t] = "idle"
    /\ IsSnapshot(ret[t]) /\ ret[t].source = "live_api"

\* C12: a get_live_gold_price call that returns a snapshot with source
\* live_api returns a timestamp no earlier than that of the last such
\* snapshot returned before the call was made.
C12_TimestampMonotonic ==
    [][ \A t \in Threads :
           (ReturnsLive(t) /\ liveAtCall[t] # -1)
           => ret[t].timestamp >= liveAtCall[t] ]_vars

----------------------------------------------------------------------------
(* Properties of the pricing functions and of the scraper *)

\* a direct call of calculate_discount_percentage has returned
DiscountReturned ==
    /\ invocation # Nil
    /\ invocation.fn = "calculate_discount_percentage"
    /\ returned # Pending

Extracted == listing # Nil /\ parsed # Pending

\* the scraper has returned for the listing: None or a product
Scraped == listing # Nil /\ product # Pending

\* the listing became a product: it was priced and emitted
Emitted == Scraped /\ product # Nil

\* the tokens of the listing whose weight is within 0.001 .. 1000 grams
InRangeTokens(raw) == SelectSeq(raw.tokens, InWeightRange)

AllIdentical(ws) == \A k \in 1 .. Len(ws) : ws[k] = ws[1]

\* C14: a title of the form 'X g (a g + b g + ...)' whose inner weights sum
\* to X within 0.01 g resolves to the weight X.
C14_ParentheticalSum ==
    (/\ Extracted
     /\ listing.form = "parentheses"
     /\ Abs(listing.tokens[1] - SumSeq(Tail(listing.tokens))) < SUM_TOLERANCE)
    => parsed.weight = listing.tokens[1]

\* C15: a plus-joined title resolves to the sum of one weight per segment,
\* the number next to the segment's gram unit, counting only the weights
\* within 0.001 .. 1000 grams.
C15_PlusJoinedSum ==
    (Extracted /\ listing.form = "plus")
    => parsed.weight = SumSeq(InRangeTokens(listing))

\* C16, as stated: whenever a title carries weight tokens in range, identical
\* tokens resolve to their single value and differing tokens to their sum.
C16_IdenticalOrSum ==
    (Extracted /\ InRangeTokens(listing) # << >>)
    => parsed.weight = IF AllIdentical(InRangeTokens(listing))
                       THEN InRangeTokens(listing)[1]
                       ELSE SumSeq(InRangeTokens(listing))

\* C16, amended: in a title that is neither parenthetical nor plus-joined
\* nor hyphen-prefixed, identical weight tokens in range resolve to their
\* single value and differing tokens to their sum.
C16_ScanIdenticalOrSum ==
    (/\ Extracted
     /\ listing.form \in {"single", "repeat", "pair"}
     /\ InRangeTokens(listing) # << >>)
    => parsed.weight = IF AllIdentical(InRangeTokens(listing))
                       THEN InRangeTokens(listing)[1]
                       ELSE SumSeq(InRangeTokens(listing))

\* a title repeating one weight token has been resolved to that weight
C16_Witness ==
    /\ Extracted
    /\ listing.form = "repeat"
    /\ InRangeTokens(listing) # << >>
    /\ parsed.rule = "scan"
    /\ parsed.weight = listing.tokens[1]

C18_WeightInRange ==
    Emitted => InWeightRange(product.weight_grams)

\* a direct call of calculate_expected_price has returned
ExpectedPriceReturned ==
    /\ invocation # Nil
    /\ invocation.fn = "calculate_expected_price"
    /\ returned # Pending

\* the purity factors as the specification lists them, in 1/10000
StatedPurityFactor ==
    [p \in {"24K", "22K", "18K", "14K"} |->
        CASE p = "24K" -> 9990 [] p = "22K" -> 9167
          [] p = "18K" -> 7500 [] p = "14K" -> 5850]

\* the base price per gram as stated: the snapshot's per-karat table entry
\* when it carries one, else the 24K per-gram price times the purity factor
StatedBasePrice(gold_data, purity) ==
    LET entry == CASE purity = "24K" -> gold_data.k24
                   [] purity = "22K" -> gold_data.k22
                   [] purity = "18K" -> gold_data.k18
                   [] purity = "14K" -> gold_data.k14
    IN  IF gold_data.hasRaw /\ entry > 0
        THEN entry * 10
        ELSE ScaleBy(gold_data.landed * 100, StatedPurityFactor[purity], 10000)

\* C19: the base price per gram is the snapshot's per-karat table entry
\* when the snapshot carries one, else the 24K per-gram price times the
\* purity factor (0.999, 0.9167, 0.750, 0.585), and gold_value is the base
\* price times the weight.
C19_BasePrice ==
    ExpectedPriceReturned =>
        /\ returned.landed_price_per_gram =
               StatedBasePrice(invocation.gold_data, invocation.purity)
        /\ returned.gold_value =
               ScaleBy(StatedBasePrice(invocation.gold_data, invocation.purity),
                       invocation.weight, 100000)

\* the premium as stated: the flat premium for 10 g scaled by weight / 10
\* and by the purity factor, for jewellery that is not 24K
StatedPremium(weight, purity, product_type) ==
    IF product_type = "jewellery" /\ purity # "24K"
    THEN ScaleBy(ScaleBy(JEWELLERY_PREMIUM_22K, weight, 10000),
                 StatedPurityFactor[purity], 10000)
    ELSE 0

\* C20: for jewellery that is not 24K the expected price adds the flat
\* per-10g premium scaled by weight / 10 and the purity factor, and
\* total_expected and price_per_gram include it; coins and 24K items get
\* no premium.
C20_JewelleryPremium ==
    ExpectedPriceReturned =>
        LET total == returned.gold_value + returned.making_charges + returned.gst
                     + StatedPremium(invocation.weight, invocation.purity,
                                     invocation.product_type)
        IN  /\ returned.total_expected = total
            /\ returned.price_per_gram = ScaleBy(total, 1000, invocation.weight)

\* the making-charges table as stated, in percent: the entry of
\* (product_type, purity), or the default of the product type when the
\* table has no such entry
StatedMakingCharges(product_type, purity) ==
    IF product_type = "coin"
    THEN IF purity \in {"24K", "22K"} THEN 0 ELSE 4
    ELSE IF purity \in {"24K", "22K", "18K", "14K"} THEN 0 ELSE 12

\* C21: the pricing call the scraper makes for a listing applies the
\* making-charges percentage of the (coin, purity) entry, or the coin
\* default, when the listing is classified coin, and that of the
\* (jewellery, purity) entry when it is classified jewellery.
C21_MakingChargesKeyed ==
    Emitted =>
        product.making_charges_percent =
            StatedMakingCharges(product.product_type, product.purity)

\* C25: a call get_live_gold_price(force_refresh=True) attempts an upstream
\* fetch before it returns, and returns persisted data only after every
\* source failed.
C25_ForceRefreshFetches ==
    \A t \in Threads :
        (Returning(t) /\ force[t]) =>
            /\ tried[t] # << >>
            /\ path[t] \notin {"live", "live_unsaved"} => AllSourcesFailed(t)

\* the call of thread t fetched a snapshot from a source
FetchedLive(t) ==
    /\ IsGlp(t)
    /\ tried[t] # << >>
    /\ tried[t][Len(tried[t])][2] = "ok"
    /\ out[t] # Nil
    /\ out[t].source = "live_api"

\* C29: the cache file changes only by a call that fetched a snapshot from
\* a source, and to that snapshot (source live_api); a call that is
\* rate-limited or whose sources all failed leaves the file as it was, and
\* no re-tagged or re-stamped snapshot is written.
C29_OnlyLivePersisted ==
    [][cacheFile' # cacheFile =>
          /\ cacheFile' # Nil
          /\ cacheFile'.snap.source = "live_api"
          /\ \E t \in Threads : FetchedLive(t) /\ cacheFile'.snap = out[t]]_vars

\* a call in which every source failed returns the persisted snapshot
\* re-tagged and re-stamped, while the file holds it as it was fetched
C29_Witness ==
    \E t \in Threads :
        /\ Returning(t) /\ AllSourcesFailed(t)
        /\ IsSnapshot(ret[t])
        /\ ret[t].source = "cached_fallback"
        /\ cacheFile # Nil
        /\ cacheFile.snap.source = "live_api"
        /\ cacheFile.snap.timestamp # ret[t].timestamp

----------------------------------------------------------------------------
(* Properties of the deal filters *)

\* the thresholds both filters apply
AdmissibleByScanner(p) ==
    /\ p.discount_percent >= MIN_DISCOUNT_PERCENTAGE
    /\ p.weight_grams >= ALERT_MIN_WEIGHT
    /\ p.selling_price > ALERT_PRICE_FLOOR

\* and the cap on the price per gram of GoldDealFinder: the entry of the
\* purity, 'default' for a purity without one
AdmissibleByFinder(p) ==
    /\ AdmissibleByScanner(p)
    /\ \/ p.purity \in {"24K", "22K", "18K", "14K"}
          /\ p.price_per_gram <= MAX_PRICE_PER_GRAM[p.purity]
       \/ p.purity \notin {"24K", "22K", "18K", "14K"}
          /\ p.price_per_gram <= MAX_PRICE_PER_GRAM["default"]

AllOf(deals, Test(_)) == \A i \in 1 .. Len(deals) : Test(deals[i])

SomeOf(deals, Test(_)) == \E i \in 1 .. Len(deals) : Test(deals[i])

FailsFinder(p) == ~ AdmissibleByFinder(p)

FailsScanner(p) == ~ AdmissibleByScanner(p)

CappedOnly(p) == AdmissibleByScanner(p) /\ ~ AdmissibleByFinder(p)

\* C22: every listing filter_good_deals returns meets the thresholds on
\* discount_percent, weight_grams and selling_price, and in GoldDealFinder
\* the cap on price_per_gram of its purity; a key a call adds to
\* sent_alerts is the key of a listing of the batch that meets them, and so
\* does every listing of deals_history
C22_AdmissionPolicy ==
    /\ good_deals # Pending =>
          /\ AllOf(good_deals.deals, AdmissibleByFinder)
          /\ \A k \in sent_alerts \ good_deals.alerts_before :
                \E i \in 1 .. Len(good_deals.batch) :
                   /\ ProductKey(good_deals.batch[i]) = k
                   /\ AdmissibleByFinder(good_deals.batch[i])
    /\ \A i \in 1 .. Len(deals_history) :
          AdmissibleByFinder(deals_history[i].product)
    /\ top_deals # Pending => AllOf(top_deals.deals, AdmissibleByScanner)

\* both filters have returned deals from batches that held listings below
\* the thresholds, the finder's one that only the cap keeps out
C22_Witness ==
    /\ good_deals # Pending
    /\ top_deals # Pending
    /\ good_deals.deals # << >>
    /\ top_deals.deals # << >>
    /\ SomeOf(good_deals.batch, CappedOnly)
    /\ SomeOf(good_deals.batch, FailsScanner)
    /\ SomeOf(top_deals.batch, FailsScanner)
    /\ deals_history # << >>

\* no two listings of a list have the same key
DistinctKeys(deals) ==
    \A i, j \in 1 .. Len(deals) :
       i # j => ProductKey(deals[i]) # ProductKey(deals[j])

\* C23: a GoldDealFinder returns no key in more than one cycle, and no
\* returned list holds two listings of the same key
C23_NoKeyTwice ==
    good_deals # Pending =>
       /\ KeysOf(good_deals.deals) \cap earlier_keys = {}
       /\ DistinctKeys(good_deals.deals)

\* the second cycle returned deals from a batch that offered a listing
\* returned before and two admissible listings of one key
C23_Witness ==
    /\ good_deals # Pending
    /\ earlier_keys # {}
    /\ good_deals.deals # << >>
    /\ \E i \in 1 .. Len(good_deals.batch) :
          /\ ProductKey(good_deals.batch[i]) \in earlier_keys
          /\ AdmissibleByFinder(good_deals.batch[i])
    /\ \E i, j \in 1 .. Len(good_deals.batch) :
          /\ i # j
          /\ ProductKey(good_deals.batch[i]) = ProductKey(good_deals.batch[j])
          /\ ProductKey(good_deals.batch[i]) \notin good_deals.alerts_before
          /\ AdmissibleByFinder(good_deals.batch[i])
          /\ AdmissibleByFinder(good_deals.batch[j])

AtMostFourAscending(deals) ==
    /\ Len(deals) <= 4
    /\ \A i, j \in 1 .. Len(deals) :
          i < j => deals[i].discount_percent <= deals[j].discount_percent

\* C24: the list either filter returns has at most 4 listings, in
\* ascending order of discount_percent
C24_RankedAndTruncated ==
    /\ good_deals # Pending => AtMostFourAscending(good_deals.deals)
    /\ top_deals # Pending => AtMostFourAscending(top_deals.deals)

\* both filters admitted more than four listings, out of the order of
\* their discounts, and returned four
C24_Witness ==
    /\ good_deals # Pending
    /\ top_deals # Pending
    /\ Len(good_deals.admitted) > 4
    /\ Len(top_deals.admitted) > 4
    /\ Len(good_deals.deals) = 4
    /\ Len(top_deals.deals) = 4
    /\ good_deals.deals # SubSeq(good_deals.admitted, 1, 4)
    /\ top_deals.deals # SubSeq(top_deals.admitted, 1, 4)

\* the admitted listings that are not in the returned list
LeftOut(result) ==
    { result.admitted[i] : i \in 1 .. Len(result.admitted) }
    \ { result.deals[i] : i \in 1 .. Len(result.deals) }

NoneBetterLeftOut(result) ==
    Len(result.admitted) > 4 =>
       \A a \in LeftOut(result) :
          \A i \in 1 .. Len(result.deals) :
             a.discount_percent <= result.deals[i].discount_percent

\* C26: when more than 4 listings are admitted, no admitted listing left
\* out of the result has a strictly higher discount_percent than one that
\* is in it
C26_TopDealsAreBest ==
    /\ good_deals # Pending => NoneBetterLeftOut(good_deals)
    /\ top_deals # Pending => NoneBetterLeftOut(top_deals)

\* C28: every key a call of GoldDealFinder.filter_good_deals adds to
\* sent_alerts is the key of a listing of the list it returns
C28_AlertedOnlyIfEmitted ==
    good_deals # Pending =>
       sent_alerts \ good_deals.alerts_before \subseteq KeysOf(good_deals.deals)

----------------------------------------------------------------------------
(* Properties of the HTTP API *)

\* C27: two scrapes of /api/v1/scan never start less than SCAN_COOLDOWN
\* (30 minutes) apart, so of requests that come in together at most one
\* is accepted; a request rejected with 429 starts no scrape
C27_ScanCooldown ==
    /\ \A i, j \in 1 .. Len(scrapes) :
          i < j => scrapes[j] - scrapes[i] >= 1800
    /\ (response # Nil /\ response.endpoint = "scan" /\ response.status = 429)
          => Len(scrapes) = response.scrapes_before

\* a second scan was accepted once the cooldown was over, and the request
\* after it was rejected
C27_Witness ==
    /\ Len(scrapes) = 2
    /\ scrapes[2] - scrapes[1] = SCAN_COOLDOWN
    /\ response # Nil
    /\ response.endpoint = "scan"
    /\ response.status = 429
    /\ clock = scrapes[2]

\* C30: once scan_products has returned success for a scan, no request to
\* /api/v1/products/latest is answered from a cached response that was
\* computed from the scan files as they were before the file of that scan
\* was written
C30_ScanInvalidatesCache ==
    (response # Nil /\ response.endpoint = "latest" /\ response.cached)
       => response.succeeded \subseteq response.files

====
